---- MODULE Spec2Model ----
(***************************************************************************)
(* A model of next-safe-route: the route pipeline built by                 *)
(* RouteHandlerBuilder.handler() (src/src/routeHandlerBuilder.ts) and the  *)
(* action pipeline built by SafeActionBuilder.action()                     *)
(* (src/src/safeActionBuilder.ts).                                         *)
(*                                                                         *)
(* One behaviour of SpecRoute is one invocation of a route handler: the    *)
(* builder configuration and the validity of the request are chosen in the *)
(* initial state; what user code does (params container, middlewares,      *)
(* terminal handler, custom mappers, validation adapter faults) is chosen  *)
(* when that code is called.                                               *)
(*                                                                         *)
(* SpecDecoders applies the query decoder and the body decoder of the      *)
(* route pipeline to query strings, bodies and parser options drawn from   *)
(* bounded sets.                                                           *)
(***************************************************************************)
EXTENDS Integers, Sequences, FiniteSets, TLC

\* ------------------------------------------------------------------ bounds
MaxMiddlewares == 2
MaxIssues == 2
MaxEntries == 2
MaxBuilderCalls == 3

\* ------------------------------------------------------- optional values
\* A JavaScript value that may be undefined: <<>> is undefined, <<v>> is v.
Undefined == << >>
Some(v) == << v >>

\* ------------------------------------------------------------ data model
Categories == <<"params", "query", "body">>
CategorySet == {"params", "query", "body"}

Issues == {"issue1", "issue2"}

RECURSIVE SeqsUpTo(_, _)
SeqsUpTo(S, n) ==
  IF n = 0 THEN {<< >>}
  ELSE LET shorter == SeqsUpTo(S, n - 1)
       IN shorter \cup {Append(s, e) : s \in {t \in shorter : Len(t) = n - 1}, e \in S}

IssueLists == SeqsUpTo(Issues, MaxIssues)

\* Context objects are sets of <<key, value>> pairs with one pair per key.
Patches == { {}, {<<"x", 1>>}, {<<"x", 2>>, <<"y", 1>>} }
BaseContexts == { {}, {<<"x", 0>>} }

\* { ...a, ...b }: keys of b win.
spread(a, b) == {p \in a : \A q \in b : q[1] # p[1]} \cup b

\* class BodyParsingError extends Error
BodyParsingError(message) == [name |-> "BodyParsingError", message |-> message]
Error(message) == [name |-> "Error", message |-> message]

InvalidJsonBody == "Invalid JSON body."
InvalidFormData == "Invalid Form Data."
UnsupportedContentType ==
  "Unsupported content type. Expected application/json, multipart/form-data, or application/x-www-form-urlencoded."
RequestBodyRequired == "Request body is required."

\* fallback error message of each category, as passed to validateInput
errorMessage(cat) ==
  CASE cat = "params" -> "Invalid params"
    [] cat = "query" -> "Invalid query"
    [] cat = "body" -> "Invalid body"

\* JSON.stringify of an object: a property whose value is undefined is dropped.
jsonMessageBody(message, issues) ==
  IF issues = Undefined THEN [message |-> message]
  ELSE [message |-> message, issues |-> issues[1]]

\* the issues are left out of the body
buildErrorResponseMutant(message, issues, status) ==
  [status |-> status,
   headers |-> "application/json",
   body |-> jsonMessageBody(message, Undefined)]

buildErrorResponse(message, issues, status) ==
  [status |-> status,
   headers |-> "application/json",
   body |-> jsonMessageBody(message, issues)]

DefaultStatus == 400

\* Responses made by user code are opaque values named after their maker.
MiddlewareResponse(i) == [by |-> "middleware", index |-> i]
HandlerResponse(c) == [by |-> "handler", context |-> c]
MappedResponse(e) == [by |-> "handleServerError", error |-> e]
CustomValidationResponse(issues) == [by |-> "validationErrorHandler", issues |-> issues]

\* JavaScript values, tagged with their type; an object is a function from
\* its keys to its values
JsUndefined == [type |-> "undefined"]
JsNull == [type |-> "null"]
JsBoolean(b) == [type |-> "boolean", value |-> b]
JsNumber(n) == [type |-> "number", value |-> n]
JsString(str) == [type |-> "string", value |-> str]
JsArray(elements) == [type |-> "array", elements |-> elements]
JsObject(obj) == [type |-> "object", obj |-> obj]

\* {}
EmptyMapping == JsObject([k \in {} |-> JsUndefined])

\* undefined or null
isNullish(v) == v.type \in {"undefined", "null"}

\* Values flowing through the pipeline: a raw parsed input, or the
\* validation adapter's output for it.
Raw(v) == [raw |-> v]
Validated(v) == [validated |-> v]

InternalServerError == "Internal server error"

\* ------------------------------------------------ value coercion & selection
CoercionModes == {"none", "primitive", "custom"}
ArrayStrategies == {"auto", "always", "never"}
SingleValueStrategies == {"first", "last"}

\* the text of a JSON object
JsonText == "{\"a\":1}"

\* a number that is not an integer, by its tenths
Tenths(n) == [tenths |-> n]

\* the strings of the model that match ^-?(\d+|\d*\.\d+)$ ("5.", "1e3", "+1"
\* and "" do not) and the numbers they denote
isNumeric(str) == str \in {"12", "-3", ".5", "1.5"}
toNumber(str) ==
  CASE str = "12" -> 12
    [] str = "-3" -> 0 - 3
    [] str = ".5" -> Tenths(5)
    [] str = "1.5" -> Tenths(15)

\* coercion mode 'primitive'
coercePrimitive(str) ==
  IF str = "true" THEN JsBoolean(TRUE)
  ELSE IF str = "false" THEN JsBoolean(FALSE)
  ELSE IF str = "null" THEN JsNull
  ELSE IF isNumeric(str) THEN JsNumber(toNumber(str))
  ELSE JsString(str)

\* what the custom coercion function returns for (value, key)
customCoercion(str, key) == [type |-> "custom", value |-> str, key |-> key]

\* coerce(rawString, key, mode); a custom function is given (value, key) and
\* its result is taken as it is
coerceValue(str, key, mode) ==
  CASE mode = "none" -> JsString(str)
    [] mode = "primitive" -> coercePrimitive(str)
    [] mode = "custom" -> customCoercion(str, key)

\* selectValues(coercedValues, arrayStrategy, singleValueStrategy)
selectValues(values, arrayStrategy, singleValueStrategy) ==
  CASE arrayStrategy = "always" -> JsArray(values)
    [] arrayStrategy = "never" ->
         IF Len(values) = 0 THEN JsUndefined
         ELSE IF singleValueStrategy = "first" THEN values[1]
         ELSE values[Len(values)]
    [] arrayStrategy = "auto" ->
         IF Len(values) = 1 THEN values[1] ELSE JsArray(values)

\* ------------------------------------------- entries of a query string or form
\* URLSearchParams and FormData hold a sequence of <<key, value>> entries.

\* only the first entry's key is kept
keysOfMutant(entries) == IF entries = << >> THEN {} ELSE {entries[1][1]}

\* Array.from(new Set(x.keys()))
keysOf(entries) == {entries[i][1] : i \in 1..Len(entries)}

\* only the first value of the key is returned
getAllMutant(entries, key) ==
  LET matching == SelectSeq(entries, LAMBDA e : e[1] = key)
  IN IF matching = << >> THEN << >> ELSE << matching[1][2] >>

\* x.getAll(key): the values of the key in order of occurrence
getAll(entries, key) ==
  LET matching == SelectSeq(entries, LAMBDA e : e[1] = key)
  IN [i \in 1..Len(matching) |-> matching[i][2]]

\* the coerce option is ignored: every value is coerced to a primitive
decodeEntriesMutant(entries, options) ==
  JsObject([key \in keysOf(entries) |->
              LET values == getAll(entries, key)
              IN selectValues([i \in 1..Len(values) |->
                                 coerceValue(values[i], key, "primitive")],
                              options.arrayStrategy, options.singleValueStrategy)])

\* one entry per distinct key: its values, coerced, then selected
decodeEntries(entries, options) ==
  JsObject([key \in keysOf(entries) |->
              LET values == getAll(entries, key)
              IN selectValues([i \in 1..Len(values) |->
                                 coerceValue(values[i], key, options.coerce)],
                              options.arrayStrategy, options.singleValueStrategy)])

\* ----------------------------------------------------------- getQueryParams
QueryOptions ==
  [arrayStrategy : ArrayStrategies, singleValueStrategy : SingleValueStrategies,
   coerce : CoercionModes]

DefaultQueryOptions ==
  [arrayStrategy |-> "auto", singleValueStrategy |-> "last", coerce |-> "none"]

\* the parsed query of the entries of url.searchParams
getQueryParams(entries, options) == decodeEntries(entries, options)

\* ===================================================== route pipeline state
VARIABLES
  cfg,               \* the builder's configuration (immutable)
  req,               \* what the validation adapter will say of each category
  pc,                \* position of the invocation in handler()
  vIndex,            \* which validateInput call comes next (1..3)
  inputs,            \* paramsInput, queryInput, bodyInput
  validation,        \* data of paramsValidation, queryValidation, bodyValidation
  validateLog,       \* categories handed to the validation adapter, in order
  adapterIssues,     \* the issue list of the adapter's last failure report
  bodyReads,         \* number of reads of the request body
  middlewareContext, \* the accumulated middleware context
  mwIndex,           \* index of the next middleware of the loop (1-based)
  mwLog,             \* the middlewares invoked, in order: of each its index, the
                     \* data it was called with, what it did and its patch
  handlerCalls,      \* number of invocations of the terminal handler
  handlerContext,    \* what the terminal handler was given
  fault,             \* the error caught by the catch block
  mapperCalls,       \* number of invocations of handleServerError
  vehCalls,          \* number of invocations of validationErrorHandler
  response,          \* the Response the invocation resolved to
  rejection,         \* the error the invocation rejected with
  outcome            \* "pending", "resolved" or "rejected"

routeVars == <<cfg, req, pc, vIndex, inputs, validation, validateLog, adapterIssues,
               bodyReads, middlewareContext, mwIndex, mwLog, handlerCalls,
               handlerContext, fault, mapperCalls, vehCalls, response, rejection,
               outcome>>

\* ==================================================== action pipeline: state
VARIABLES
  acfg,          \* the action builder's configuration (immutable)
  apc,           \* "start" before input validation, "chain" after, "idle"
  parsedInput,   \* the parsed input handed to middlewares and handler
  inputResult,   \* what the adapter returned for the raw input, if it was asked
  frames,        \* activations of runMiddleware: 1..n middlewares, n+1 handler;
                 \* of each: status, the nextCalled flag, what the middleware
                 \* did with the promise of a refused call of next, the result
                 \* received from next, ctx, how the caller consumes the
                 \* activation's promise, and how it settled
  aResult,       \* the value the action's promise resolved to
  aRejection,    \* the error the action's promise rejected with
  aOutcome,      \* "pending", "resolved" or "rejected"
  aMwCalls,      \* indices of the middlewares invoked, in order
  aHandlerCalls, \* number of invocations of the handler
  mapperLog      \* the errors handed to the custom handleServerError, whether
                 \* it threw, and what it returned

actionVars == <<acfg, apc, parsedInput, inputResult, frames, aResult, aRejection, aOutcome,
                aMwCalls, aHandlerCalls, mapperLog>>

\* ============================================================ builders: state
VARIABLES
  heap,   \* the objects allocated so far, by address: builders, their
          \* configuration objects and middleware arrays, and the handlers
          \* and actions produced
  made    \* of each builder, handler and action: the builder it was made
          \* from, the change asked for and its configuration when made

builderVars == <<heap, made>>

\* ================================================= several invocations: state
VARIABLES
  runs,   \* of each invocation of one handler or action function: its locals
  hook    \* the state cells and refs of a mounted hook

runVars == <<runs, hook>>

NoValue == [none |-> TRUE]

\* parserOptions.body; emptyValue is Undefined when none was supplied
FallbackStrategies == {"json-first", "text"}
EmptyValues == {Undefined, Some(JsNull), Some(JsString("none"))}

BodyOptions ==
  [strictContentType : BOOLEAN, allowEmptyBody : BOOLEAN, emptyValue : EmptyValues,
   coerce : CoercionModes, fallbackStrategy : FallbackStrategies,
   arrayStrategy : ArrayStrategies, singleValueStrategy : SingleValueStrategies]

DefaultBodyOptions ==
  [strictContentType |-> TRUE, allowEmptyBody |-> TRUE, emptyValue |-> Undefined,
   coerce |-> "none", fallbackStrategy |-> "json-first",
   arrayStrategy |-> "auto", singleValueStrategy |-> "last"]

\* the body options of the route invocations: the defaults but for
\* strictContentType and allowEmptyBody
RouteBodyOptions ==
  {[DefaultBodyOptions EXCEPT !.strictContentType = strict, !.allowEmptyBody = allow] :
     strict \in BOOLEAN, allow \in BOOLEAN}

Configs ==
  [paramsSchema : BOOLEAN, querySchema : BOOLEAN, bodySchema : BOOLEAN,
   handleServerError : BOOLEAN, validationErrorHandler : BOOLEAN,
   middlewares : 0..MaxMiddlewares,
   baseContext : BaseContexts,
   queryOptions : {DefaultQueryOptions},
   bodyOptions : RouteBodyOptions]

\* ----------------------------------------------------------------- requests
\* the entries of a query string or form: up to MaxEntries <<key, value>> pairs
Entries(pairs) == SeqsUpTo(pairs, MaxEntries)

\* the text of an urlencoded form
RECURSIVE formText(_)
formText(entries) ==
  IF entries = << >> THEN ""
  ELSE LET first == entries[1][1] \o "=" \o entries[1][2]
       IN IF Len(entries) = 1 THEN first
          ELSE first \o "&" \o formText(Tail(entries))

\* A request body, as the transport holds it: the text request.text() gives
\* and the entries request.formData() decodes (Undefined when it fails).
TextBody(text) == [text |-> text, form |-> Undefined]
FormBody(entries) == [text |-> formText(entries), form |-> Some(entries)]

\* the params of a route
RouteParams == JsObject([id |-> JsString("7")])

\* The second argument of a route handler: no context at all, a context
\* without params, params given as a value, params given as a promise that
\* fulfils with a value, or as a promise that rejects.
NoContext == [kind |-> "noContext"]
NoParams == [kind |-> "noParams"]
DirectParams(value) == [kind |-> "value", value |-> value]
PendingParams(value) == [kind |-> "pending", value |-> value]
RejectingParams == [kind |-> "rejects"]

\* A request: what the validation adapter will say of each category, the
\* entries of url.searchParams, the content-type header ("" when missing),
\* the body and whether its stream can still be read; with it comes the
\* route context.
Request(valid, query, contentType, body, readable) ==
  [valid |-> valid, query |-> query, contentType |-> contentType, body |-> body,
   readable |-> readable, context |-> DirectParams(RouteParams)]

InContext(request, context) == [request EXCEPT !.context = context]

RouteQuery == << <<"q", "1">> >>

\* the transports of the route invocations: <<content type, body, readable>>
RouteTransports ==
  { <<"application/json", TextBody(JsonText), TRUE>>,
    <<"application/json", TextBody(""), TRUE>>,
    <<"application/json", TextBody("hello"), TRUE>>,
    <<"application/json", TextBody(JsonText), FALSE>>,
    <<"application/x-www-form-urlencoded", FormBody(<< <<"a", "1">> >>), TRUE>>,
    <<"multipart/form-data; boundary=x", TextBody("hello"), TRUE>>,
    <<"text/plain", TextBody("hello"), TRUE>>,
    <<"", TextBody(""), TRUE>> }

\* the route contexts of the route invocations
RouteContexts == {NoParams, DirectParams(RouteParams), RejectingParams}

Requests ==
  {InContext(Request(valid, RouteQuery, t[1], t[2], t[3]), context) :
     valid \in [CategorySet -> BOOLEAN], t \in RouteTransports,
     context \in RouteContexts}

schemaOf(c, cat) ==
  CASE cat = "params" -> c.paramsSchema
    [] cat = "query" -> c.querySchema
    [] cat = "body" -> c.bodySchema

\* query validated before params
validationOrderMutant == <<"query", "params", "body">>

\* the order of the three validateInput calls of handler()
validationOrder == Categories

InitRoute ==
  /\ cfg \in Configs
  /\ req \in Requests
  \* the adapter is asked only about the categories that have a schema
  /\ \A cat \in CategorySet : ~schemaOf(cfg, cat) => req.valid[cat]
  /\ pc = "resolveParams"
  /\ vIndex = 1
  /\ inputs = [cat \in CategorySet |-> NoValue]
  /\ validation = [cat \in CategorySet |-> NoValue]
  /\ validateLog = << >>
  /\ adapterIssues = << >>
  /\ bodyReads = 0
  /\ middlewareContext = {}
  /\ mwIndex = 1
  /\ mwLog = << >>
  /\ handlerCalls = 0
  /\ handlerContext = NoValue
  /\ fault = NoValue
  /\ mapperCalls = 0
  /\ vehCalls = 0
  /\ response = NoValue
  /\ rejection = NoValue
  /\ outcome = "pending"
  \* the action pipeline is not in use
  /\ acfg = NoValue
  /\ apc = "idle"
  /\ parsedInput = NoValue
  /\ inputResult = NoValue
  /\ frames = << >>
  /\ aResult = NoValue
  /\ aRejection = NoValue
  /\ aOutcome = "idle"
  /\ aMwCalls = << >>
  /\ aHandlerCalls = 0
  /\ mapperLog = << >>
  \* no builder is being configured
  /\ heap = << >>
  /\ made = << >>
  \* one invocation only, outside any hook
  /\ runs = << >>
  /\ hook = NoValue

\* the invocation's promise resolves to r
Resolve(r) ==
  /\ response' = r
  /\ outcome' = "resolved"
  /\ pc' = "done"
  /\ UNCHANGED rejection

\* the invocation's promise rejects with e
Reject(e) ==
  /\ rejection' = e
  /\ outcome' = "rejected"
  /\ pc' = "done"
  /\ UNCHANGED response

\* an error is thrown inside the try block
Throw(e) ==
  /\ fault' = e
  /\ pc' = "catch"
  /\ UNCHANGED <<response, rejection, outcome>>

\* ------------------------------------------------------------ resolveParams
\* context ?? { params: {} }
routeContextOf(context) ==
  IF context.kind = "noContext" THEN DirectParams(EmptyMapping) ELSE context

\* a promise is handed on as it is, without being awaited
resolveParamsMutant(routeContext) ==
  IF routeContext.kind = "noParams" THEN [ok |-> TRUE, value |-> Raw(EmptyMapping)]
  ELSE IF routeContext.kind = "value" THEN [ok |-> TRUE, value |-> Raw(routeContext.value)]
  ELSE [ok |-> TRUE, value |-> Raw([type |-> "promise"])]

\* await Promise.resolve(params ?? {}), then ?? {}
resolveParams(routeContext) ==
  IF routeContext.kind = "rejects"
  THEN [ok |-> FALSE, error |-> Error("params container rejected")]
  ELSE LET resolvedParams ==
             IF routeContext.kind = "noParams" THEN EmptyMapping ELSE routeContext.value
       IN [ok |-> TRUE,
           value |-> Raw(IF isNullish(resolvedParams) THEN EmptyMapping ELSE resolvedParams)]

ResolveParams ==
  /\ pc = "resolveParams"
  /\ LET r == resolveParams(routeContextOf(req.context)) IN
       IF r.ok
       THEN /\ inputs' = [inputs EXCEPT !["params"] = r.value]
            /\ pc' = "getQueryParams"
            /\ UNCHANGED <<fault, response, rejection, outcome>>
       ELSE /\ Throw(r.error)
            /\ UNCHANGED inputs
  /\ UNCHANGED <<cfg, req, vIndex, validation, validateLog, adapterIssues, bodyReads,
                 middlewareContext, mwIndex, mwLog, handlerCalls, handlerContext,
                 mapperCalls, vehCalls>>
  /\ UNCHANGED <<actionVars, builderVars, runVars>>

\* ----------------------------------------------------------- getQueryParams
GetQueryParams ==
  /\ pc = "getQueryParams"
  /\ inputs' = [inputs EXCEPT !["query"] = Raw(getQueryParams(req.query, cfg.queryOptions))]
  /\ pc' = "parseRequestBody"
  /\ UNCHANGED <<cfg, req, vIndex, validation, validateLog, adapterIssues, bodyReads,
                 middlewareContext, mwIndex, mwLog, handlerCalls, handlerContext, fault,
                 mapperCalls, vehCalls, response, rejection, outcome>>
  /\ UNCHANGED <<actionVars, builderVars, runVars>>

\* --------------------------------------------------------- parseRequestBody
\* contentType.includes(mediaType): the media type is a substring of the header
\* value as sent; the comparison is by code unit, so "Application/JSON" does
\* not include "application/json"
includes(contentType, mediaType) ==
  <<contentType, mediaType>> \in
    { <<"application/json", "application/json">>,
      <<"application/json; charset=utf-8", "application/json">>,
      <<"multipart/form-data; boundary=x", "multipart/form-data">>,
      <<"application/x-www-form-urlencoded", "application/x-www-form-urlencoded">> }

\* JSON.parse(text): the value, or a SyntaxError
jsonParse(text) ==
  IF text = JsonText THEN [ok |-> TRUE, value |-> JsObject([a |-> JsNumber(1)])]
  ELSE IF text \in {"true", "false"} THEN [ok |-> TRUE, value |-> JsBoolean(text = "true")]
  ELSE IF text = "null" THEN [ok |-> TRUE, value |-> JsNull]
  ELSE IF text \in {"12", "-3"} THEN [ok |-> TRUE, value |-> JsNumber(toNumber(text))]
  ELSE [ok |-> FALSE]

\* no text counts as empty
isZeroLengthMutant(text) == FALSE

\* rawBody.length === 0
isZeroLength(text) == text = ""

\* Empty-body policy of the body decoder (parser options allowEmptyBody and
\* emptyValue; emptyValue is Undefined when none was supplied).
resolveEmptyBody(options) ==
  IF ~options.allowEmptyBody
  THEN [ok |-> FALSE, error |-> BodyParsingError(RequestBodyRequired), reads |-> 1]
  ELSE IF options.emptyValue # Undefined
  THEN [ok |-> TRUE, value |-> Raw(options.emptyValue[1]), reads |-> 1]
  ELSE [ok |-> TRUE, value |-> Raw(EmptyMapping), reads |-> 1]

\* the key the coercion of a text body is given
TextBodyKey == "body"

\* Non-strict fallback of the body decoder (parser option strictContentType
\* false): the text is read; parsed as JSON when fallbackStrategy is
\* json-first and it parses, the coerced text otherwise.
parseFallbackBody(options, request) ==
  IF ~request.readable
  THEN [ok |-> FALSE, error |-> Error("body stream unreadable"), reads |-> 1]
  ELSE IF isZeroLength(request.body.text) THEN resolveEmptyBody(options)
  ELSE IF options.fallbackStrategy = "json-first" /\ jsonParse(request.body.text).ok
  THEN [ok |-> TRUE, value |-> Raw(jsonParse(request.body.text).value), reads |-> 1]
  ELSE [ok |-> TRUE,
        value |-> Raw(coerceValue(request.body.text, TextBodyKey, options.coerce)),
        reads |-> 1]

\* every content type is taken for JSON
isJsonMutant(contentType) == TRUE

isJson(contentType) == includes(contentType, "application/json")

\* every content type that is not JSON is taken for a form
isFormMutant(contentType) == ~isJson(contentType)

isForm(contentType) ==
  \/ includes(contentType, "multipart/form-data")
  \/ includes(contentType, "application/x-www-form-urlencoded")

\* the body is read whether or not a body schema was declared
bodySchemaTestMutant(c) == FALSE

\* if (!this.config.bodySchema) return {}
bodySchemaTest(c) == ~c.bodySchema

\* the form branch: formData(), then one entry per distinct key
parseFormBody(options, request) ==
  IF ~request.readable \/ request.body.form = Undefined
  THEN [ok |-> FALSE, error |-> BodyParsingError(InvalidFormData), reads |-> 1]
  ELSE IF request.body.form[1] = << >> THEN resolveEmptyBody(options)
  ELSE [ok |-> TRUE, value |-> Raw(decodeEntries(request.body.form[1], options)),
        reads |-> 1]

\* the JSON branch: text(), then JSON.parse
parseJsonBody(options, request) ==
  IF ~request.readable
  THEN [ok |-> FALSE, error |-> Error("body stream unreadable"), reads |-> 1]
  ELSE IF isZeroLength(request.body.text) THEN resolveEmptyBody(options)
  ELSE IF jsonParse(request.body.text).ok
  THEN [ok |-> TRUE, value |-> Raw(jsonParse(request.body.text).value), reads |-> 1]
  ELSE [ok |-> FALSE, error |-> BodyParsingError(InvalidJsonBody), reads |-> 1]

parseRequestBody(c, request) ==
  IF bodySchemaTest(c)
  THEN [ok |-> TRUE, value |-> Raw(EmptyMapping), reads |-> 0]
  ELSE IF isJson(request.contentType) THEN parseJsonBody(c.bodyOptions, request)
  ELSE IF isForm(request.contentType) THEN parseFormBody(c.bodyOptions, request)
  ELSE IF c.bodyOptions.strictContentType
  THEN [ok |-> FALSE, error |-> BodyParsingError(UnsupportedContentType), reads |-> 0]
  ELSE parseFallbackBody(c.bodyOptions, request)

ParseRequestBody ==
  /\ pc = "parseRequestBody"
  /\ LET r == parseRequestBody(cfg, req) IN
       /\ bodyReads' = bodyReads + r.reads
       /\ IF r.ok
          THEN /\ inputs' = [inputs EXCEPT !["body"] = r.value]
               /\ pc' = "validate"
               /\ UNCHANGED <<fault, response, rejection, outcome>>
          ELSE /\ Throw(r.error)
               /\ UNCHANGED inputs
  /\ UNCHANGED <<cfg, req, vIndex, validation, validateLog, adapterIssues,
                 middlewareContext, mwIndex, mwLog, handlerCalls, handlerContext,
                 mapperCalls, vehCalls>>
  /\ UNCHANGED <<actionVars, builderVars, runVars>>

\* ------------------------------------------------------------ validateInput
\* what validationAdapter.validate does with a declared schema
AdapterOutcomes == {"answers", "throws"}

\* what the custom validationErrorHandler does when called
HandlerOutcomes == {"returns", "throws"}

\* the custom handler is ignored
validationFailureResponseMutant(c, cat, issues) ==
  buildErrorResponse(errorMessage(cat), Some(issues), DefaultStatus)

\* response of a failed validation: from the custom handler when there is
\* one, the default 400 response otherwise
validationFailureResponse(c, cat, issues) ==
  IF c.validationErrorHandler
  THEN CustomValidationResponse(issues)
  ELSE buildErrorResponse(errorMessage(cat), Some(issues), DefaultStatus)

\* the validation adapter is asked although no schema was declared
passThroughMutant(data) == Validated(data)

\* { success: true, data: data ?? {} }: without a schema the input passes
\* through, an absent one as the empty mapping
passThrough(data) == IF isNullish(data.raw) THEN Raw(EmptyMapping) ELSE data

\* the raw input is handed on instead of the adapter's output
successDataMutant(data) == data

\* { success: true, data: result.data }: the adapter's output for the input
successData(data) == Validated(data)

\* the loop starts from an empty context
initialContextMutant(base) == {}

\* let middlewareContext = { ...this.baseContext }
initialContext(base) == spread({}, base)

\* A validation succeeded: go on with the next validateInput call, or, after
\* the last one, start the middleware loop from a copy of the base context.
Validated_Continue ==
  /\ vIndex' = vIndex + 1
  /\ IF vIndex = Len(validationOrder)
     THEN /\ pc' = "middlewares"
          /\ middlewareContext' = initialContext(cfg.baseContext)
     ELSE /\ pc' = "validate"
          /\ UNCHANGED middlewareContext

\* One call of validateInput(schema, data, errorMessage) and the test of its
\* result in handler().
ValidateInput(cat) ==
  /\ pc = "validate"
  /\ vIndex <= Len(validationOrder)
  /\ validationOrder[vIndex] = cat
  /\ IF ~schemaOf(cfg, cat)
     THEN \* no schema: data ?? {}
          /\ validation' = [validation EXCEPT ![cat] = passThrough(inputs[cat])]
          /\ Validated_Continue
          /\ UNCHANGED <<validateLog, adapterIssues, vehCalls, fault, response,
                         rejection, outcome>>
     ELSE /\ validateLog' = Append(validateLog, cat)
          /\ \E adapter \in AdapterOutcomes :
               IF adapter = "throws"
               THEN /\ Throw(Error("validation adapter failed"))
                    /\ UNCHANGED <<validation, vIndex, vehCalls, middlewareContext,
                                   adapterIssues>>
               ELSE IF req.valid[cat]
               THEN /\ validation' = [validation EXCEPT ![cat] = successData(inputs[cat])]
                    /\ Validated_Continue
                    /\ UNCHANGED <<adapterIssues, vehCalls, fault, response,
                                   rejection, outcome>>
               ELSE \E issues \in IssueLists, custom \in HandlerOutcomes :
                      /\ adapterIssues' = issues
                      /\ vehCalls' = IF cfg.validationErrorHandler THEN vehCalls + 1 ELSE vehCalls
                      /\ UNCHANGED <<validation, vIndex, middlewareContext>>
                      /\ IF cfg.validationErrorHandler /\ custom = "throws"
                         THEN Throw(Error("validationErrorHandler failed"))
                         ELSE /\ Resolve(validationFailureResponse(cfg, cat, issues))
                              /\ UNCHANGED fault
  /\ UNCHANGED <<cfg, req, inputs, bodyReads, mwIndex, mwLog,
                 handlerCalls, handlerContext, mapperCalls>>
  /\ UNCHANGED <<actionVars, builderVars, runVars>>

ValidateParams == ValidateInput("params")
ValidateQuery == ValidateInput("query")
ValidateBody == ValidateInput("body")

\* --------------------------------------------------------- middleware loop
MiddlewareOutcomes == {"patch", "response", "throws"}

\* the value a middleware returned (awaited, so a promise of it is the same)
PatchResult(p) == [kind |-> "patch", value |-> p]
ResponseResult(r) == [kind |-> "response", value |-> r]

\* a returned Response is not recognised
isResponseMutant(result) == FALSE

\* result instanceof Response
isResponse(result) == result.kind = "response"

\* the second argument of a middleware call: the context accumulated so far
middlewareData(ctx) == ctx

\* keys of the accumulated context win over the keys of the result
mergeResultMutant(ctx, result) == spread(result, ctx)

\* middlewareContext = { ...middlewareContext, ...result }
mergeResult(ctx, result) == spread(ctx, result)

\* One turn of the for loop: await middleware(request, data), then either return
\* its Response or merge its result in the context.
RunMiddleware ==
  /\ pc = "middlewares"
  /\ mwIndex <= cfg.middlewares
  /\ \E behaviour \in MiddlewareOutcomes, p \in Patches :
     /\ mwLog' = Append(mwLog, [index |-> mwIndex, outcome |-> behaviour,
                                data |-> middlewareData(middlewareContext),
                                patch |-> IF behaviour = "patch" THEN p ELSE {}])
     /\ IF behaviour = "throws"
       THEN /\ Throw(Error("middleware failed"))
            /\ UNCHANGED <<middlewareContext, mwIndex>>
       ELSE LET result == IF behaviour = "response"
                          THEN ResponseResult(MiddlewareResponse(mwIndex))
                          ELSE PatchResult(p)
            IN IF isResponse(result)
               THEN /\ Resolve(result.value)
                    /\ UNCHANGED <<middlewareContext, mwIndex, fault>>
               ELSE /\ middlewareContext' =
                         mergeResult(middlewareContext,
                                     IF result.kind = "patch" THEN result.value ELSE {})
                    /\ mwIndex' = mwIndex + 1
                    /\ UNCHANGED <<pc, fault, response, rejection, outcome>>
  /\ UNCHANGED <<cfg, req, vIndex, inputs, validation, validateLog, adapterIssues,
                 bodyReads, handlerCalls, handlerContext, mapperCalls, vehCalls>>
  /\ UNCHANGED <<actionVars, builderVars, runVars>>

\* ---------------------------------------------------------- terminal handler
\* returns a Response, returns a promise of one, throws before returning, or
\* returns a promise that rejects
TerminalOutcomes == {"returns", "resolves", "throws", "rejects"}

\* return handler(request, {params, query, body, data}): the returned value
\* is not awaited inside the try block, so only a synchronous throw reaches
\* the catch block; a returned promise settles the invocation's promise.
InvokeHandler ==
  /\ pc = "middlewares"
  /\ mwIndex > cfg.middlewares
  /\ handlerCalls' = handlerCalls + 1
  /\ handlerContext' = [params |-> validation["params"],
                        query |-> validation["query"],
                        body |-> validation["body"],
                        data |-> middlewareContext]
  /\ \E behaviour \in TerminalOutcomes :
       CASE behaviour \in {"returns", "resolves"} ->
              /\ Resolve(HandlerResponse(handlerContext'))
              /\ UNCHANGED fault
         [] behaviour = "throws" ->
              Throw(Error("handler threw"))
         [] behaviour = "rejects" ->
              /\ Reject(Error("handler rejected"))
              /\ UNCHANGED fault
  /\ UNCHANGED <<cfg, req, vIndex, inputs, validation, validateLog, adapterIssues,
                 bodyReads, middlewareContext, mwIndex, mwLog, mapperCalls, vehCalls>>
  /\ UNCHANGED <<actionVars, builderVars, runVars>>

\* ---------------------------------------------------------------- catch block
\* no error passes for a body-parsing failure
isBodyParsingErrorMutant(e) == FALSE

\* error instanceof BodyParsingError
isBodyParsingError(e) == e.name = "BodyParsingError"

\* the custom mapper is tried before the BodyParsingError test
usesMapperMutant(c, e) == c.handleServerError

\* whether the catch block hands the error to the custom mapper
usesMapper(c, e) == ~isBodyParsingError(e) /\ c.handleServerError

\* the response of the catch block when the custom mapper, if any, returns
catchResponse(c, e) ==
  IF usesMapper(c, e) THEN MappedResponse(e)
  ELSE IF isBodyParsingError(e) THEN buildErrorResponse(e.message, Undefined, 400)
  ELSE buildErrorResponse(InternalServerError, Undefined, 500)

CatchFault ==
  /\ pc = "catch"
  /\ \E mapper \in HandlerOutcomes :
       LET mapped == usesMapper(cfg, fault) IN
         /\ mapperCalls' = IF mapped THEN mapperCalls + 1 ELSE mapperCalls
         /\ IF mapped /\ mapper = "throws"
            THEN \* an error thrown in the catch block rejects the promise
                 Reject(Error("handleServerError failed"))
            ELSE Resolve(catchResponse(cfg, fault))
  /\ UNCHANGED <<cfg, req, vIndex, inputs, validation, validateLog, adapterIssues,
                 bodyReads, middlewareContext, mwIndex, mwLog, handlerCalls,
                 handlerContext, fault, vehCalls>>
  /\ UNCHANGED <<actionVars, builderVars, runVars>>

\* ==================================================== action pipeline: values
MaxActionMiddlewares == 2

\* JavaScript values as the pipeline tells them apart: typeof, and for an
\* object the record of its own properties.

DEFAULT_SERVER_ERROR == "Something went wrong while executing the action."

DoubleNextError == Error("next() called more than once in the same middleware.")
MiddlewareResultError == Error("Middleware must return a SafeActionResult.")
InvalidOutputError == Error("Invalid action output.")

\* a call that returns v, a call that throws e
Returned(v) == [ok |-> TRUE, value |-> v]

Thrown(e) == [ok |-> FALSE, error |-> e]

\* --------------------------------------------------------- safeActionUtils
JsSymbol(description) == [type |-> "symbol", description |-> description]

TypeError(message) == [name |-> "TypeError", message |-> message]

\* String(part) for the numbers of the model
numberString(n) == CASE n = 0 -> "0" [] n = 1 -> "1"

\* typeof part === 'symbol' ? part.description ?? part.toString() : String(part)
partString(part) ==
  CASE part.type = "symbol" ->
         IF part.description = Undefined THEN "Symbol()" ELSE part.description[1]
    [] part.type = "number" -> numberString(part.value)
    [] part.type = "string" -> part.value

\* strs.join(separator)
RECURSIVE join(_, _)
join(strs, separator) ==
  IF strs = << >> THEN ""
  ELSE IF Len(strs) = 1 THEN strs[1]
  ELSE strs[1] \o separator \o join(Tail(strs), separator)

\* a path is Undefined or Some(sequence of parts)
toDotPath(path) ==
  IF path = Undefined \/ Len(path[1]) = 0 THEN Undefined
  ELSE Some(join([i \in 1..Len(path[1]) |-> partString(path[1][i])], "."))

\* !path for what toDotPath returns: undefined and the empty string
isFalsy(path) == path = Undefined \/ path[1] = ""

\* keys every object literal inherits from Object.prototype, among others
ObjectPrototypeKeys == {"constructor", "__proto__", "toString", "valueOf"}

\* fieldErrors is an object literal, here the set of its own <<key, messages>>
\* pairs; fieldErrors[key] is the own property, or else the inherited one
hasOwn(fieldErrors, key) == \E e \in fieldErrors : e[1] = key

RECURSIVE normalizeFrom(_, _, _)
normalizeFrom(issues, fieldErrors, formErrors) ==
  IF issues = << >>
  THEN Returned([fieldErrors |-> fieldErrors, formErrors |-> formErrors])
  ELSE LET issue == Head(issues)
           path == toDotPath(issue.path)
       IN IF isFalsy(path)
          THEN normalizeFrom(Tail(issues), fieldErrors, Append(formErrors, issue.message))
          ELSE LET key == path[1] IN
            IF ~hasOwn(fieldErrors, key) /\ key \in ObjectPrototypeKeys
            THEN \* fieldErrors[path] is the inherited value, truthy and no array
                 Thrown(TypeError("messages.push is not a function"))
            ELSE LET old == IF hasOwn(fieldErrors, key)
                            THEN (CHOOSE e \in fieldErrors : e[1] = key)[2]
                            ELSE << >>
                 IN normalizeFrom(Tail(issues),
                                  {e \in fieldErrors : e[1] # key}
                                    \cup {<<key, Append(old, issue.message)>>},
                                  formErrors)

\* the call returns the two buckets or throws
normalizeValidationIssues(issues) == normalizeFrom(issues, {}, << >>)

createValidationErrorResult(issues) ==
  LET normalized == normalizeValidationIssues(issues)
  IN IF normalized.ok
     THEN Returned(JsObject([validationErrors |-> normalized.value]))
     ELSE normalized

createServerErrorResult(serverError) ==
  JsObject([serverError |-> serverError])

PayloadFields == {"data", "validationErrors", "serverError"}

\* every value passes for a result
isSafeActionResultMutant(value) == TRUE

isSafeActionResult(value) ==
  /\ value.type = "object"
  /\ DOMAIN value.obj \cap PayloadFields # {}

\* the keys of the base win
mergeContextsMutant(base, patch) ==
  spread(IF patch = Undefined THEN {} ELSE patch[1], base)

\* { ...base, ...(patch ?? {}) }
mergeContexts(base, patch) ==
  spread(base, IF patch = Undefined THEN {} ELSE patch[1])

\* ------------------------------------------------------- toSafeServerError
\* what the custom mapper does with an error: a non-empty string, the empty
\* string, a value that is no string, or an error of its own
MapperOutcomes == {"message", "empty", "nostring", "throws"}

MappedMessage == "Handled"

\* the behaviours to consider of a mapper that is configured, or is not
MapperChoices(mapper) == IF mapper THEN MapperOutcomes ELSE {"absent"}

\* mapper(error): the value the mapper returns, if it returns
mapperValue(behaviour) ==
  CASE behaviour = "message" -> JsString(MappedMessage)
    [] behaviour = "empty" -> JsString("")
    [] behaviour = "nostring" -> JsUndefined
    [] OTHER -> NoValue

\* the empty string passes for a message
isMessageMutant(mapped) == mapped.type = "string"

\* typeof mapped === 'string' && mapped.length > 0
isMessage(mapped) == mapped.type = "string" /\ mapped.value # ""

\* the error of the mapper escapes
toSafeServerErrorMutant(defaultServerError, mapper, behaviour) ==
  IF ~mapper THEN Returned(defaultServerError)
  ELSE IF behaviour = "throws" THEN Thrown(Error("mapper failed"))
  ELSE IF behaviour = "message" THEN Returned(MappedMessage)
  ELSE Returned(defaultServerError)

toSafeServerError(defaultServerError, mapper, behaviour) ==
  IF ~mapper THEN Returned(defaultServerError)
  ELSE IF behaviour = "throws" THEN Returned(defaultServerError)
  ELSE LET mapped == mapperValue(behaviour)
       IN IF isMessage(mapped)
          THEN Returned(mapped.value)
          ELSE Returned(defaultServerError)

\* the entry of the mapper log for a call of the mapper with this error
MapperCall(error, behaviour) ==
  [error |-> error, threw |-> behaviour = "throws", mapped |-> mapperValue(behaviour)]

\* ================================================= action pipeline: runs
\* the baseContext of createSafeActionClient and the patches of next({ ctx })
ActionBaseContexts == { {<<"tenant", 0>>, <<"x", 0>>} }

ActionPatches == { {<<"x", 1>>}, {<<"x", 2>>, <<"y", 2>>} }

ActionConfigs ==
  [inputSchema : BOOLEAN, outputSchema : BOOLEAN,
   middlewares : 0..MaxActionMiddlewares,
   baseContext : ActionBaseContexts,
   defaultServerError : {DEFAULT_SERVER_ERROR, "Safe error"},
   handleServerError : BOOLEAN]

\* the paths of the issues an adapter reports: none, the empty one, a key and
\* an index, a symbol, the empty key, and a key named like an inherited one
ActionPaths ==
  { Undefined, Some(<< >>),
    Some(<<JsString("a"), JsNumber(0)>>),
    Some(<<JsSymbol(Some("s"))>>),
    Some(<<JsString("")>>),
    Some(<<JsString("constructor")>>) }

ActionIssues == [path : ActionPaths, message : {"m1", "m2"}]

ActionIssueLists == SeqsUpTo(ActionIssues, MaxIssues)

\* values a middleware may return of its own
MiddlewareReturns ==
  { JsUndefined,
    JsObject([foo |-> Raw("x")]),
    JsObject([data |-> Raw("middleware")]),
    JsObject([serverError |-> "Blocked by middleware"]),
    JsObject([data |-> Raw("middleware"), serverError |-> "Blocked by middleware"]) }

IdleFrame ==
  [status |-> "idle", nextCalled |-> FALSE, repeated |-> "none",
   received |-> NoValue, ctx |-> {}, consume |-> "none", settlement |-> "pending",
   options |-> Undefined, middlewareResult |-> NoValue, handlerResult |-> NoValue,
   outputResult |-> NoValue, returned |-> NoValue]

\* runMiddleware(k - 1, ctx) is called: a fresh nextCalled flag
Activate(fr, k, ctx, consume) ==
  [fr EXCEPT ![k] = [status |-> "running", nextCalled |-> FALSE,
                     repeated |-> "none", received |-> NoValue, ctx |-> ctx,
                     consume |-> consume, settlement |-> "pending",
                     options |-> Undefined, middlewareResult |-> NoValue,
                     handlerResult |-> NoValue, outputResult |-> NoValue,
                     returned |-> NoValue]]

\* the promise of activation k settles, fulfilled or rejected, and the
\* activation's locals are gone; awaiting a promise that is fulfilled is the
\* same inside try/catch and outside
Settle(fr, k, settlement) ==
  [fr EXCEPT ![k].status = "settled",
             ![k].received = NoValue,
             ![k].ctx = {},
             ![k].options = Undefined,
             ![k].consume = IF settlement.ok /\ fr[k].consume = "try" THEN "await"
                            ELSE fr[k].consume,
             ![k].settlement = IF settlement.ok THEN "fulfilled" ELSE "rejected",
             ![k].returned = IF settlement.ok THEN settlement.value ELSE NoValue]

InitAction ==
  /\ acfg \in ActionConfigs
  /\ apc = "start"
  /\ parsedInput = NoValue
  /\ inputResult = NoValue
  /\ frames = [k \in 1..(acfg.middlewares + 1) |-> IdleFrame]
  /\ aResult = NoValue
  /\ aRejection = NoValue
  /\ aOutcome = "pending"
  /\ aMwCalls = << >>
  /\ aHandlerCalls = 0
  /\ mapperLog = << >>
  \* no builder is being configured
  /\ heap = << >>
  /\ made = << >>
  \* the route pipeline is not in use
  /\ cfg = NoValue
  /\ req = NoValue
  /\ pc = "idle"
  /\ vIndex = 1
  /\ inputs = NoValue
  /\ validation = NoValue
  /\ validateLog = << >>
  /\ adapterIssues = << >>
  /\ bodyReads = 0
  /\ middlewareContext = {}
  /\ mwIndex = 1
  /\ mwLog = << >>
  /\ handlerCalls = 0
  /\ handlerContext = NoValue
  /\ fault = NoValue
  /\ mapperCalls = 0
  /\ vehCalls = 0
  /\ response = NoValue
  /\ rejection = NoValue
  /\ outcome = "idle"
  \* one invocation only, outside any hook
  /\ runs = << >>
  /\ hook = NoValue

\* the invocation log after runMiddleware(k - 1, ...) was called
Invoked(k) ==
  IF k <= acfg.middlewares
  THEN /\ aMwCalls' = Append(aMwCalls, k)
       /\ UNCHANGED aHandlerCalls
  ELSE /\ aHandlerCalls' = aHandlerCalls + 1
       /\ UNCHANGED aMwCalls

\* the catch block of actionFn; log is the mapper log so far
CatchActionFault(error, log) ==
  \E behaviour \in MapperChoices(acfg.handleServerError) :
    LET message == toSafeServerError(acfg.defaultServerError, acfg.handleServerError,
                                     behaviour)
    IN /\ mapperLog' = IF acfg.handleServerError
                       THEN Append(log, MapperCall(error, behaviour))
                       ELSE log
       /\ IF message.ok
          THEN /\ aResult' = createServerErrorResult(message.value)
               /\ aOutcome' = "resolved"
               /\ UNCHANGED aRejection
          ELSE /\ aRejection' = message.error
               /\ aOutcome' = "rejected"
               /\ UNCHANGED aResult

ActionAdapterOutcomes == {"ok", "fail", "throws"}

\* the adapter's result for the raw input
Succeeded(data) == [success |-> TRUE, data |-> data]
Failed(issues) == [success |-> FALSE, issues |-> issues]

\* if (inputResult.success === false)
inputRejected(result) == ~result.success

\* actionFn up to the first call of runMiddleware
ValidateActionInput ==
  /\ apc = "start"
  /\ apc' = "chain"
  /\ \E adapter \in ActionAdapterOutcomes, issues \in ActionIssueLists :
       LET result == IF adapter = "ok" THEN Succeeded(Validated(Raw("input")))
                     ELSE Failed(issues) IN
         CASE acfg.inputSchema /\ adapter = "throws" ->
                /\ CatchActionFault(Error("validation adapter failed"), mapperLog)
                /\ UNCHANGED <<parsedInput, inputResult, frames, aMwCalls,
                               aHandlerCalls>>
           [] acfg.inputSchema /\ adapter # "throws" /\ inputRejected(result) ->
                LET failure == createValidationErrorResult(result.issues) IN
                  /\ inputResult' = result
                  /\ IF failure.ok
                     THEN /\ aResult' = failure.value
                          /\ aOutcome' = "resolved"
                          /\ UNCHANGED <<aRejection, mapperLog>>
                     ELSE CatchActionFault(failure.error, mapperLog)
                  /\ UNCHANGED <<parsedInput, frames, aMwCalls, aHandlerCalls>>
           [] OTHER ->
                /\ inputResult' = IF acfg.inputSchema THEN result ELSE NoValue
                /\ parsedInput' = IF acfg.inputSchema THEN result.data
                                  ELSE Raw("undefined")
                /\ frames' = Activate(frames, 1, spread({}, acfg.baseContext), "top")
                /\ Invoked(1)
                /\ UNCHANGED <<aResult, aRejection, aOutcome, mapperLog>>
  /\ UNCHANGED acfg
  /\ UNCHANGED <<routeVars, builderVars, runVars>>

\* ------------------------------------------------- settlement of an activation
\* Activation k settles. Its promise is the one its caller got from next():
\* a caller that awaits it goes on with the result, or fails with the error
\* unless it awaits inside try/catch; the top of the chain is awaited by
\* actionFn. The outcome is the frames after that and the settlement
\* reaching actionFn, if any.
\* next() resolves to the raw value of the handler
nextResultMutant(settlement) == JsObject([data |-> Raw("output")])

\* return runMiddleware(index + 1, ...): what next() resolves to
nextResult(settlement) == settlement.value

RECURSIVE Unwind(_, _, _)
Unwind(fr, k, settlement) ==
  LET f == fr[k]
      done == Settle(fr, k, settlement)
  IN CASE f.consume = "top" ->
            [frames |-> done, top |-> Some(settlement)]
       [] f.consume \in {"await", "try"} /\ settlement.ok ->
            [frames |-> [done EXCEPT ![k - 1].status = "running",
                                     ![k - 1].received = nextResult(settlement)],
             top |-> Undefined]
       [] f.consume = "try" /\ ~settlement.ok ->
            [frames |-> [done EXCEPT ![k - 1].status = "running"],
             top |-> Undefined]
       [] f.consume = "await" /\ ~settlement.ok ->
            Unwind(done, k - 1, settlement)
       \* nobody awaits the promise
       [] f.consume = "detach" ->
            [frames |-> done, top |-> Undefined]

\* return await runMiddleware(0, initialContext) inside try/catch, for the
\* settlement of activation k of the frames fr
Finish(fr, k, settlement, log) ==
  LET u == Unwind(fr, k, settlement)
  IN /\ frames' = u.frames
     /\ IF u.top = Undefined
        THEN /\ mapperLog' = log
             /\ UNCHANGED <<aResult, aRejection, aOutcome>>
        ELSE IF u.top[1].ok
        THEN /\ aResult' = u.top[1].value
             /\ aOutcome' = "resolved"
             /\ mapperLog' = log
             /\ UNCHANGED aRejection
        ELSE CatchActionFault(u.top[1].error, log)

\* ------------------------------------------------------------ runMiddleware
\* what a middleware does with the promise next() returns: await it and let
\* a rejection propagate, await it inside try/catch, or never await it
NextModes == {"await", "try", "detach"}

\* the middlewares of the model wait for the downstream chain they started:
\* `return next()` and `await next()`, inside try/catch or outside
AwaitModes == {"await", "try"}

\* a call that is refused: its promise rejects at once, so the middleware
\* either lets the rejection propagate or goes on ("try", "detach")
repeatedAs(mode) == IF mode = "await" THEN "await" ELSE "ignored"

\* the one-shot guard is missing
nextRefusedMutant(f) == FALSE

\* the guard of next(): the call is refused once the flag is set
nextRefused(f) == f.nextCalled

\* the flag is left as it was
markCalledMutant(fr, k) == fr

\* nextCalled = true
markCalled(fr, k) == [fr EXCEPT ![k].nextCalled = TRUE]

\* Middleware k calls next(options).
MwCallNext(k) ==
  /\ apc = "chain"
  /\ k \in 1..acfg.middlewares
  /\ frames[k].status = "running"
  /\ LET f == frames[k] IN
       IF nextRefused(f)
       THEN \* throw new Error('next() called more than once ...'): the
            \* promise of this call rejects
            \E mode \in NextModes :
              LET refused == [frames EXCEPT ![k].repeated = repeatedAs(mode)] IN
                /\ IF mode = "await"
                   THEN Finish(refused, k, Thrown(DoubleNextError), mapperLog)
                   ELSE /\ frames' = refused
                        /\ UNCHANGED <<aResult, aRejection, aOutcome, mapperLog>>
                /\ UNCHANGED <<aMwCalls, aHandlerCalls>>
       ELSE \* nextCalled = true; runMiddleware(index + 1, mergeContexts(...))
            \E mode \in AwaitModes,
               options \in {Undefined} \cup {Some(q) : q \in ActionPatches} :
              /\ frames' = Activate([markCalled(frames, k) EXCEPT
                                       ![k].options = options,
                                       ![k].status = "awaiting"],
                                    k + 1, mergeContexts(f.ctx, options), mode)
              /\ Invoked(k + 1)
              /\ UNCHANGED <<aResult, aRejection, aOutcome, mapperLog>>
  /\ UNCHANGED <<acfg, apc, parsedInput, inputResult>>
  /\ UNCHANGED <<routeVars, builderVars, runVars>>

\* Middleware k calls next(options) for the first time and goes on without
\* awaiting the promise: the downstream chain runs beside it.
MwCallNextDetached(k) ==
  /\ apc = "chain"
  /\ k \in 1..acfg.middlewares
  /\ frames[k].status = "running"
  /\ ~nextRefused(frames[k])
  /\ \E options \in {Undefined} \cup {Some(q) : q \in ActionPatches} :
       /\ frames' = Activate([markCalled(frames, k) EXCEPT ![k].options = options],
                             k + 1, mergeContexts(frames[k].ctx, options), "detach")
       /\ Invoked(k + 1)
  /\ UNCHANGED <<aResult, aRejection, aOutcome, mapperLog>>
  /\ UNCHANGED <<acfg, apc, parsedInput, inputResult>>
  /\ UNCHANGED <<routeVars, builderVars, runVars>>

\* the value of the middleware is handed on as the data of a new result
checkMiddlewareResultMutant(value) == Returned(JsObject([data |-> value]))

\* the test of the middleware's return value in runMiddleware
checkMiddlewareResult(value) ==
  IF isSafeActionResult(value) THEN Returned(value) ELSE Thrown(MiddlewareResultError)

\* Middleware k returns a value of its own or the result it got from next().
MwReturn(k) ==
  /\ apc = "chain"
  /\ k \in 1..acfg.middlewares
  /\ frames[k].status = "running"
  /\ \E value \in MiddlewareReturns \cup
                  (IF frames[k].received = NoValue THEN {} ELSE {frames[k].received}) :
       \* const middlewareResult = await middleware({ ... })
       Finish([frames EXCEPT ![k].middlewareResult = value], k,
              checkMiddlewareResult(value), mapperLog)
  /\ UNCHANGED <<acfg, apc, parsedInput, inputResult, aMwCalls, aHandlerCalls>>
  /\ UNCHANGED <<routeVars, builderVars, runVars>>

\* Middleware k throws.
MwThrow(k) ==
  /\ apc = "chain"
  /\ k \in 1..acfg.middlewares
  /\ frames[k].status = "running"
  /\ Finish(frames, k, Thrown(Error("Boom")), mapperLog)
  /\ UNCHANGED <<acfg, apc, parsedInput, inputResult, aMwCalls, aHandlerCalls>>
  /\ UNCHANGED <<routeVars, builderVars, runVars>>

\* ---------------------------------------------------------------- runHandler
ActionHandlerOutcomes == {"returns", "throws"}

\* the output validation is skipped
runHandlerResultMutant(c, handlerResult, outputResult, message) ==
  JsObject([data |-> handlerResult])

\* what runHandler returns for the value of the handler, the adapter's result
\* for it and the message of the server-error policy
runHandlerResult(c, handlerResult, outputResult, message) ==
  IF ~c.outputSchema THEN JsObject([data |-> handlerResult])
  ELSE IF ~outputResult.success THEN createServerErrorResult(message)
  ELSE JsObject([data |-> outputResult.data])

\* the locals of runHandler in activation k
withOutput(fr, k, handlerResult, outputResult) ==
  [fr EXCEPT ![k].handlerResult = handlerResult, ![k].outputResult = outputResult]

\* runHandler after the handler was called: its outcome, then the validation
\* of the output.
RunHandler ==
  /\ apc = "chain"
  /\ frames[acfg.middlewares + 1].status = "running"
  /\ LET k == acfg.middlewares + 1
         handlerResult == Raw("output")
     IN
       \E behaviour \in ActionHandlerOutcomes :
         IF behaviour = "throws"
         THEN Finish(frames, k, Thrown(Error("Boom")), mapperLog)
         ELSE IF ~acfg.outputSchema
         THEN Finish(withOutput(frames, k, handlerResult, NoValue), k,
                     Returned(runHandlerResult(acfg, handlerResult, NoValue, NoValue)),
                     mapperLog)
         ELSE \E adapter \in ActionAdapterOutcomes :
           CASE adapter = "ok" ->
                  LET outputResult == Succeeded(Validated(handlerResult)) IN
                    Finish(withOutput(frames, k, handlerResult, outputResult), k,
                           Returned(runHandlerResult(acfg, handlerResult, outputResult,
                                                     NoValue)),
                           mapperLog)
             [] adapter = "throws" ->
                  Finish(withOutput(frames, k, handlerResult, NoValue), k,
                         Thrown(Error("validation adapter failed")), mapperLog)
             [] adapter = "fail" ->
                  \E mapper \in MapperChoices(acfg.handleServerError) :
                    LET outputResult == Failed(<< [path |-> Undefined, message |-> "m1"] >>)
                        invalid == toSafeServerError(acfg.defaultServerError,
                                                     acfg.handleServerError, mapper)
                    IN Finish(withOutput(frames, k, handlerResult, outputResult), k,
                              IF invalid.ok
                              THEN Returned(runHandlerResult(acfg, handlerResult,
                                                             outputResult, invalid.value))
                              ELSE invalid,
                              IF acfg.handleServerError
                              THEN Append(mapperLog,
                                          MapperCall(InvalidOutputError, mapper))
                              ELSE mapperLog)
  /\ UNCHANGED <<acfg, apc, parsedInput, inputResult, aMwCalls, aHandlerCalls>>
  /\ UNCHANGED <<routeVars, builderVars, runVars>>

NextAction ==
  \/ ValidateActionInput
  \/ \E k \in 1..MaxActionMiddlewares : MwCallNext(k)
  \/ \E k \in 1..MaxActionMiddlewares : MwReturn(k)
  \/ \E k \in 1..MaxActionMiddlewares : MwThrow(k)
  \/ RunHandler

NextRoute ==
  \/ ResolveParams
  \/ GetQueryParams
  \/ ParseRequestBody
  \/ ValidateParams
  \/ ValidateQuery
  \/ ValidateBody
  \/ RunMiddleware
  \/ InvokeHandler
  \/ CatchFault

vars == <<routeVars, actionVars, builderVars, runVars>>

\* one invocation of a route handler
SpecRoute == InitRoute /\ [][NextRoute]_vars

\* one invocation of an action function
SpecAction == InitAction /\ [][NextAction]_vars

\* ------------------------------------------- middlewares that do not await
\* actions without schemas and without mapper
DetachedConfigs ==
  {c \in ActionConfigs : /\ ~c.inputSchema
                         /\ ~c.outputSchema
                         /\ ~c.handleServerError
                         /\ c.defaultServerError = DEFAULT_SERVER_ERROR}

InitDetached ==
  /\ acfg \in DetachedConfigs
  /\ apc = "start"
  /\ parsedInput = NoValue
  /\ inputResult = NoValue
  /\ frames = [k \in 1..(acfg.middlewares + 1) |-> IdleFrame]
  /\ aResult = NoValue
  /\ aRejection = NoValue
  /\ aOutcome = "pending"
  /\ aMwCalls = << >>
  /\ aHandlerCalls = 0
  /\ mapperLog = << >>
  \* no builder is being configured
  /\ heap = << >>
  /\ made = << >>
  \* the route pipeline is not in use
  /\ cfg = NoValue
  /\ req = NoValue
  /\ pc = "idle"
  /\ vIndex = 1
  /\ inputs = NoValue
  /\ validation = NoValue
  /\ validateLog = << >>
  /\ adapterIssues = << >>
  /\ bodyReads = 0
  /\ middlewareContext = {}
  /\ mwIndex = 1
  /\ mwLog = << >>
  /\ handlerCalls = 0
  /\ handlerContext = NoValue
  /\ fault = NoValue
  /\ mapperCalls = 0
  /\ vehCalls = 0
  /\ response = NoValue
  /\ rejection = NoValue
  /\ outcome = "idle"
  \* one invocation only, outside any hook
  /\ runs = << >>
  /\ hook = NoValue

NextDetached ==
  \/ ValidateActionInput
  \/ \E k \in 1..MaxActionMiddlewares : MwCallNext(k)
  \/ \E k \in 1..MaxActionMiddlewares : MwCallNextDetached(k)
  \/ \E k \in 1..MaxActionMiddlewares : MwReturn(k)
  \/ \E k \in 1..MaxActionMiddlewares : MwThrow(k)
  \/ RunHandler

\* one invocation of an action function whose middlewares call next() any
\* number of times and await the promises or not
SpecDetached == InitDetached /\ [][NextDetached]_vars

\* ==================================================== several invocations
\* One action function, or one route handler, invoked several times; the
\* invocations take their steps in any order.
MaxInvocations == 2

Invocations == 1..MaxInvocations

\* the invocations are told apart by the order in which they are made
mayStart(i) ==
  /\ runs[i].status = "idle"
  /\ IF i = 1 THEN TRUE ELSE runs[i - 1].status # "idle"

\* ---------------------------------------------------- the action function
\* how often each middleware called next() is kept beside the locals
IdleActionRun(c) ==
  [status |-> "idle", frames |-> [k \in 1..(c.middlewares + 1) |-> IdleFrame],
   calls |-> [k \in 1..c.middlewares |-> 0], result |-> NoValue]

\* one flag for the middleware, whichever invocation it runs in
guardOfMutant(rs, i, k) == \E j \in DOMAIN rs : nextRefused(rs[j].frames[k])

\* let nextCalled = false, in runMiddleware: the flag next() tests is the
\* one of its own activation
guardOf(rs, i, k) == nextRefused(rs[i].frames[k])

\* return await runMiddleware(0, initialContext), and the catch block, for
\* the outcome of a settlement in invocation i
delivered(i, u) ==
  [runs EXCEPT
     ![i].frames = u.frames,
     ![i].status = IF u.top = Undefined THEN @ ELSE "settled",
     ![i].result =
        IF u.top = Undefined THEN @
        ELSE IF u.top[1].ok THEN u.top[1].value
        ELSE createServerErrorResult(
               toSafeServerError(acfg.defaultServerError, acfg.handleServerError,
                                 "absent").value)]

\* actionFn(input) up to the first call of runMiddleware
ActionInvoke(i) ==
  /\ mayStart(i)
  /\ runs' = [runs EXCEPT
               ![i].status = "running",
               ![i].frames = Activate(@, 1, spread({}, acfg.baseContext), "top")]
  /\ UNCHANGED <<routeVars, actionVars, builderVars, hook>>

\* Middleware k of invocation i calls next() and awaits the promise, outside
\* try/catch or, when it is a second call, inside as well; it makes no third
\* call.
ActionCallNext(i, k) ==
  /\ k \in 1..acfg.middlewares
  /\ runs[i].status # "idle"
  /\ runs[i].frames[k].status = "running"
  /\ runs[i].frames[k].repeated = "none"
  /\ LET counted == [runs EXCEPT ![i].calls[k] = @ + 1] IN
       IF guardOf(runs, i, k)
       THEN \E mode \in AwaitModes :
              LET refused == [runs[i].frames EXCEPT ![k].repeated = repeatedAs(mode)] IN
                IF mode = "await"
                THEN runs' = [delivered(i, Unwind(refused, k, Thrown(DoubleNextError)))
                                EXCEPT ![i].calls = counted[i].calls]
                ELSE runs' = [counted EXCEPT ![i].frames = refused]
       ELSE runs' = [counted EXCEPT
                       ![i].frames = Activate([markCalled(runs[i].frames, k) EXCEPT
                                                 ![k].status = "awaiting"],
                                              k + 1,
                                              mergeContexts(runs[i].frames[k].ctx,
                                                            Undefined),
                                              "await")]
  /\ UNCHANGED <<routeVars, actionVars, builderVars, hook>>

\* Middleware k of invocation i returns the result next() resolved to, or,
\* when it has none, a result of its own.
ActionReturn(i, k) ==
  /\ k \in 1..acfg.middlewares
  /\ runs[i].status # "idle"
  /\ runs[i].frames[k].status = "running"
  /\ LET f == runs[i].frames[k]
         value == IF f.received = NoValue
                  THEN JsObject([serverError |-> "Blocked by middleware"])
                  ELSE f.received IN
       runs' = delivered(i, Unwind([runs[i].frames EXCEPT ![k].middlewareResult = value],
                                   k, checkMiddlewareResult(value)))
  /\ UNCHANGED <<routeVars, actionVars, builderVars, hook>>

\* The handler of invocation i returns.
ActionHandle(i) ==
  /\ runs[i].status # "idle"
  /\ runs[i].frames[acfg.middlewares + 1].status = "running"
  /\ LET k == acfg.middlewares + 1
         handlerResult == Raw("output") IN
       runs' = delivered(i, Unwind(withOutput(runs[i].frames, k, handlerResult, NoValue), k,
                                   Returned(runHandlerResult(acfg, handlerResult,
                                                             NoValue, NoValue))))
  /\ UNCHANGED <<routeVars, actionVars, builderVars, hook>>

\* actions with at least one middleware, without schemas and mapper
InvokedActionConfigs == {c \in DetachedConfigs : c.middlewares >= 1}

InitInvocations ==
  /\ acfg \in InvokedActionConfigs
  /\ runs = [i \in Invocations |-> IdleActionRun(acfg)]
  \* the locals of the invocations are in runs
  /\ apc = "idle"
  /\ parsedInput = NoValue
  /\ inputResult = NoValue
  /\ frames = << >>
  /\ aResult = NoValue
  /\ aRejection = NoValue
  /\ aOutcome = "idle"
  /\ aMwCalls = << >>
  /\ aHandlerCalls = 0
  /\ mapperLog = << >>
  \* no builder is being configured
  /\ heap = << >>
  /\ made = << >>
  \* the route pipeline is not in use
  /\ cfg = NoValue
  /\ req = NoValue
  /\ pc = "idle"
  /\ vIndex = 1
  /\ inputs = NoValue
  /\ validation = NoValue
  /\ validateLog = << >>
  /\ adapterIssues = << >>
  /\ bodyReads = 0
  /\ middlewareContext = {}
  /\ mwIndex = 1
  /\ mwLog = << >>
  /\ handlerCalls = 0
  /\ handlerContext = NoValue
  /\ fault = NoValue
  /\ mapperCalls = 0
  /\ vehCalls = 0
  /\ response = NoValue
  /\ rejection = NoValue
  /\ outcome = "idle"
  \* no hook is mounted
  /\ hook = NoValue

NextInvocations ==
  \/ \E i \in Invocations : ActionInvoke(i)
  \/ \E i \in Invocations, k \in 1..MaxActionMiddlewares : ActionCallNext(i, k)
  \/ \E i \in Invocations, k \in 1..MaxActionMiddlewares : ActionReturn(i, k)
  \/ \E i \in Invocations : ActionHandle(i)

\* several invocations of one action function, interleaved
SpecInvocations == InitInvocations /\ [][NextInvocations]_vars

\* -------------------------------------------------------- the route handler
IdleRouteRun ==
  [status |-> "idle", middlewareContext |-> {}, mwIndex |-> 1, patches |-> << >>,
   response |-> NoValue]

\* one context for the handler, whichever invocation it runs in
storeContextMutant(rs, i, ctx) ==
  [j \in DOMAIN rs |-> [rs[j] EXCEPT !.middlewareContext = ctx]]

\* let middlewareContext, in the function handler() returns: the variable is
\* a local of the invocation
storeContext(rs, i, ctx) == [rs EXCEPT ![i].middlewareContext = ctx]

\* what the handler is given for a request without params, query and body
\* by a builder without schemas
handlerArgument(ctx) ==
  [params |-> passThrough(Raw(EmptyMapping)), query |-> passThrough(Raw(EmptyMapping)),
   body |-> passThrough(Raw(EmptyMapping)), data |-> ctx]

\* The function handler() returned is called; without schemas the inputs
\* pass, and the loop starts from a copy of the base context.
RouteInvoke(i) ==
  /\ mayStart(i)
  /\ runs' = [storeContext(runs, i, initialContext(cfg.baseContext))
               EXCEPT ![i].status = "middlewares"]
  /\ UNCHANGED <<routeVars, actionVars, builderVars, hook>>

\* One turn of the for loop in invocation i.
RouteMiddleware(i) ==
  /\ runs[i].status = "middlewares"
  /\ runs[i].mwIndex <= cfg.middlewares
  /\ \E behaviour \in {"patch", "response"}, p \in Patches :
       LET result == IF behaviour = "response"
                     THEN ResponseResult(MiddlewareResponse(runs[i].mwIndex))
                     ELSE PatchResult(p) IN
         IF isResponse(result)
         THEN runs' = [runs EXCEPT ![i].status = "done", ![i].response = result.value]
         ELSE runs' = [storeContext(runs, i,
                                    mergeResult(runs[i].middlewareContext, result.value))
                         EXCEPT ![i].mwIndex = @ + 1,
                                ![i].patches = Append(@, result.value)]
  /\ UNCHANGED <<routeVars, actionVars, builderVars, hook>>

\* return handler(request, { params, query, body, data: middlewareContext })
RouteHandle(i) ==
  /\ runs[i].status = "middlewares"
  /\ runs[i].mwIndex > cfg.middlewares
  /\ runs' = [runs EXCEPT
               ![i].status = "done",
               ![i].response = HandlerResponse(handlerArgument(runs[i].middlewareContext))]
  /\ UNCHANGED <<routeVars, actionVars, builderVars, hook>>

\* builders with a middleware at least, without schemas and custom handlers
InvokedRouteConfigs ==
  {c \in Configs : /\ ~c.paramsSchema /\ ~c.querySchema /\ ~c.bodySchema
                   /\ ~c.handleServerError /\ ~c.validationErrorHandler
                   /\ c.bodyOptions = DefaultBodyOptions
                   /\ c.middlewares >= 1}

InitRouteInvocations ==
  /\ cfg \in InvokedRouteConfigs
  /\ runs = [i \in Invocations |-> IdleRouteRun]
  \* the locals of the invocations are in runs
  /\ req = NoValue
  /\ pc = "idle"
  /\ vIndex = 1
  /\ inputs = NoValue
  /\ validation = NoValue
  /\ validateLog = << >>
  /\ adapterIssues = << >>
  /\ bodyReads = 0
  /\ middlewareContext = {}
  /\ mwIndex = 1
  /\ mwLog = << >>
  /\ handlerCalls = 0
  /\ handlerContext = NoValue
  /\ fault = NoValue
  /\ mapperCalls = 0
  /\ vehCalls = 0
  /\ response = NoValue
  /\ rejection = NoValue
  /\ outcome = "idle"
  \* the action pipeline is not in use
  /\ acfg = NoValue
  /\ apc = "idle"
  /\ parsedInput = NoValue
  /\ inputResult = NoValue
  /\ frames = << >>
  /\ aResult = NoValue
  /\ aRejection = NoValue
  /\ aOutcome = "idle"
  /\ aMwCalls = << >>
  /\ aHandlerCalls = 0
  /\ mapperLog = << >>
  \* no builder is being configured
  /\ heap = << >>
  /\ made = << >>
  \* no hook is mounted
  /\ hook = NoValue

NextRouteInvocations ==
  \/ \E i \in Invocations : RouteInvoke(i)
  \/ \E i \in Invocations : RouteMiddleware(i)
  \/ \E i \in Invocations : RouteHandle(i)

\* several invocations of one route handler, interleaved
SpecRouteInvocations == InitRouteInvocations /\ [][NextRouteInvocations]_vars

\* ===================================================================== hooks
\* useOptimisticAction over useAction, mounted once; executeAsync is called
\* up to MaxInvocations times, and the calls may overlap. React state is
\* taken as committed when it is set.

\* the deltas given as input
Deltas == {1, 2}

\* options.initialState
InitialStates == {JsNumber(5), JsUndefined}

\* options.updateFn: the current state, nothing counting for 0, plus delta
updateFn(currentState, input) ==
  JsNumber((IF currentState = JsUndefined THEN 0 ELSE currentState.value) + input)

\* what the awaited action resolves to
HookActionResults ==
  { JsObject([data |-> Raw("output")]),
    JsObject([validationErrors |-> Raw("errors")]),
    JsObject([serverError |-> "Denied"]),
    JsObject([data |-> Raw("middleware"), serverError |-> "Blocked by middleware"]) }

\* a result with data is a server error
getStatusFromResultMutant(result) ==
  IF "serverError" \in DOMAIN result.obj THEN "server-error"
  ELSE IF "validationErrors" \in DOMAIN result.obj THEN "validation-error"
  ELSE "success"

getStatusFromResult(result) ==
  IF "data" \in DOMAIN result.obj THEN "success"
  ELSE IF "validationErrors" \in DOMAIN result.obj THEN "validation-error"
  ELSE "server-error"

\* the callback executeAsync of useAction calls before onSettled
callbackFor(result) ==
  IF "data" \in DOMAIN result.obj THEN "onSuccess"
  ELSE IF "validationErrors" \in DOMAIN result.obj THEN "onValidationError"
  ELSE IF "serverError" \in DOMAIN result.obj THEN "onServerError"
  ELSE "none"

\* onSuccess of useOptimisticAction
onSuccess(h) == [h EXCEPT !.rollbackStateRef = JsUndefined]

\* onValidationError and onServerError of useOptimisticAction
onError(h) ==
  LET rollsBack == ~h.options.preserveOnError /\ h.rollbackStateRef # JsUndefined IN
    [h EXCEPT !.optimisticStateRef = IF rollsBack THEN h.rollbackStateRef ELSE @,
              !.optimisticState = IF rollsBack THEN h.rollbackStateRef ELSE @,
              !.rollbackStateRef = JsUndefined]

\* useState and useRef at mount; last is what was done to the hook last
Mounted(options) ==
  [options |-> options,
   result |-> JsUndefined, status |-> "idle", hasExecuted |-> FALSE,
   optimisticState |-> options.initialState,
   optimisticStateRef |-> options.initialState,
   rollbackStateRef |-> JsUndefined,
   last |-> [kind |-> "mount"]]

\* a call of executeAsync that was not made yet; before and after are the
\* optimistic state around the call, settledBefore the calls settled by
\* then, resetSince whether reset() was called since
IdleExecution ==
  [status |-> "idle", input |-> 0, before |-> JsUndefined, after |-> JsUndefined,
   settledBefore |-> {}, resetSince |-> FALSE, result |-> JsUndefined]

\* executeAsync of useOptimisticAction up to the await in executeAsync of
\* useAction: the action is called and its promise is pending
HookExecute(i) ==
  /\ mayStart(i)
  /\ \E input \in Deltas :
       LET nextOptimisticState == updateFn(hook.optimisticStateRef, input) IN
         /\ hook' = [hook EXCEPT !.rollbackStateRef = hook.optimisticStateRef,
                                 !.optimisticStateRef = nextOptimisticState,
                                 !.optimisticState = nextOptimisticState,
                                 !.status = "executing",
                                 !.hasExecuted = TRUE,
                                 !.last = [kind |-> "execute", execution |-> i]]
         /\ runs' = [runs EXCEPT ![i] =
                       [status |-> "pending", input |-> input,
                        before |-> hook.optimisticState,
                        after |-> nextOptimisticState,
                        settledBefore |-> {j \in DOMAIN runs : runs[j].status = "settled"},
                        resetSince |-> FALSE,
                        result |-> JsUndefined]]
  /\ UNCHANGED <<routeVars, actionVars, builderVars>>

\* The action of call i resolves: executeAsync of useAction after the await.
HookResolve(i) ==
  /\ runs[i].status = "pending"
  /\ \E actionResult \in HookActionResults :
       LET set == [hook EXCEPT !.result = actionResult,
                               !.status = getStatusFromResult(actionResult),
                               !.last = [kind |-> "resolve", execution |-> i,
                                         optimisticState |-> hook.optimisticState]] IN
         /\ hook' = CASE callbackFor(actionResult) = "onSuccess" -> onSuccess(set)
                       [] callbackFor(actionResult) \in {"onValidationError",
                                                         "onServerError"} -> onError(set)
                       [] OTHER -> set
         /\ runs' = [runs EXCEPT ![i].status = "settled", ![i].result = actionResult]
  /\ UNCHANGED <<routeVars, actionVars, builderVars>>

\* The action of call i rejects: so does executeAsync, at the await.
HookReject(i) ==
  /\ runs[i].status = "pending"
  /\ runs' = [runs EXCEPT ![i].status = "rejected"]
  /\ hook' = [hook EXCEPT !.last = [kind |-> "reject", execution |-> i]]
  /\ UNCHANGED <<routeVars, actionVars, builderVars>>

\* reset of useOptimisticAction, which calls reset of useAction
HookReset ==
  /\ hook.last.kind # "reset"
  /\ hook' = [hook EXCEPT !.optimisticStateRef = hook.options.initialState,
                          !.rollbackStateRef = JsUndefined,
                          !.optimisticState = hook.options.initialState,
                          !.status = "idle",
                          !.result = JsUndefined,
                          !.hasExecuted = FALSE,
                          !.last = [kind |-> "reset"]]
  /\ runs' = [i \in DOMAIN runs |->
                IF runs[i].status = "idle" THEN runs[i]
                ELSE [runs[i] EXCEPT !.resetSince = TRUE]]
  /\ UNCHANGED <<routeVars, actionVars, builderVars>>

HookOptions == [initialState : InitialStates, preserveOnError : BOOLEAN]

InitHooks ==
  /\ hook \in {Mounted(options) : options \in HookOptions}
  /\ runs = [i \in Invocations |-> IdleExecution]
  \* no route handler is invoked
  /\ cfg = NoValue
  /\ req = NoValue
  /\ pc = "idle"
  /\ vIndex = 1
  /\ inputs = NoValue
  /\ validation = NoValue
  /\ validateLog = << >>
  /\ adapterIssues = << >>
  /\ bodyReads = 0
  /\ middlewareContext = {}
  /\ mwIndex = 1
  /\ mwLog = << >>
  /\ handlerCalls = 0
  /\ handlerContext = NoValue
  /\ fault = NoValue
  /\ mapperCalls = 0
  /\ vehCalls = 0
  /\ response = NoValue
  /\ rejection = NoValue
  /\ outcome = "idle"
  \* the action is taken by what it resolves to
  /\ acfg = NoValue
  /\ apc = "idle"
  /\ parsedInput = NoValue
  /\ inputResult = NoValue
  /\ frames = << >>
  /\ aResult = NoValue
  /\ aRejection = NoValue
  /\ aOutcome = "idle"
  /\ aMwCalls = << >>
  /\ aHandlerCalls = 0
  /\ mapperLog = << >>
  \* no builder is being configured
  /\ heap = << >>
  /\ made = << >>

NextHooks ==
  \/ \E i \in Invocations : HookExecute(i)
  \/ \E i \in Invocations : HookResolve(i)
  \/ \E i \in Invocations : HookReject(i)
  \/ HookReset

\* one mounted hook, its executions and resets
SpecHooks == InitHooks /\ [][NextHooks]_vars

\* ========================================================= the two decoders
\* getQueryParams and parseRequestBody applied to query strings, bodies and
\* parser options drawn from bounded sets.

\* the <<key, value>> pairs of the query strings and forms
EntryPairs == { <<"a", "12">>, <<"a", "true">>, <<"b", "x">> }

\* the texts of the bodies that are not forms
BodyTexts == {"", JsonText, "hello", "12"}

Bodies == {TextBody(text) : text \in BodyTexts} \cup {FormBody(e) : e \in Entries(EntryPairs)}

ContentTypes ==
  {"", "application/json", "application/json; charset=utf-8", "Application/JSON",
   "multipart/form-data; boundary=x", "application/x-www-form-urlencoded", "text/plain"}

\* a builder with nothing but parser options and, maybe, a body schema
DecoderConfig(bodySchema, queryOptions, bodyOptions) ==
  [paramsSchema |-> FALSE, querySchema |-> FALSE, bodySchema |-> bodySchema,
   handleServerError |-> FALSE, validationErrorHandler |-> FALSE,
   middlewares |-> 0, baseContext |-> {},
   queryOptions |-> queryOptions, bodyOptions |-> bodyOptions]

AllValid == [cat \in CategorySet |-> TRUE]

\* raw strings for the coercion: the literals, numbers that match the
\* pattern, strings that do not, and plain text
CoercionSamples ==
  {"true", "false", "null", "12", "-3", ".5", "1.5", "5.", "1e3", "+1", "", "x"}

\* the options of a decoder whose coercion mode is this one; the body decoder
\* takes any content type and returns text as text
CoercingQueryOptions(mode) == [DefaultQueryOptions EXCEPT !.coerce = mode]
CoercingBodyOptions(mode) ==
  [DefaultBodyOptions EXCEPT !.coerce = mode, !.strictContentType = FALSE,
                             !.fallbackStrategy = "text"]

\* handler() after resolveParams, about to decode the query and the body
InitDecoders ==
  \* every query string under every query option; every body under every
  \* content type and every body option; without a body schema, or with a
  \* stream that cannot be read, under the default options
  /\ \/ \E o \in QueryOptions, e \in Entries(EntryPairs) :
          /\ cfg = DecoderConfig(FALSE, o, DefaultBodyOptions)
          /\ req = Request(AllValid, e, "", TextBody(""), TRUE)
     \/ \E o \in BodyOptions, contentType \in ContentTypes, body \in Bodies :
          /\ cfg = DecoderConfig(TRUE, DefaultQueryOptions, o)
          /\ req = Request(AllValid, << >>, contentType, body, TRUE)
     \/ \E bodySchema \in BOOLEAN, readable \in BOOLEAN,
           contentType \in ContentTypes, body \in Bodies :
          /\ ~(bodySchema /\ readable)
          /\ cfg = DecoderConfig(bodySchema, DefaultQueryOptions, DefaultBodyOptions)
          /\ req = Request(AllValid, << >>, contentType, body, readable)
     \* every sample as a query value and as a form value or a text body,
     \* under every coercion mode
     \/ \E mode \in CoercionModes, sample \in CoercionSamples, asForm \in BOOLEAN :
          /\ cfg = DecoderConfig(TRUE, CoercingQueryOptions(mode), CoercingBodyOptions(mode))
          /\ req = IF asForm
                   THEN Request(AllValid, << <<"a", sample>> >>,
                                "application/x-www-form-urlencoded",
                                FormBody(<< <<"a", sample>> >>), TRUE)
                   ELSE Request(AllValid, << <<"a", sample>> >>, "text/plain",
                                TextBody(sample), TRUE)
  /\ pc = "getQueryParams"
  /\ vIndex = 1
  /\ inputs = [cat \in CategorySet |-> IF cat = "params" THEN Raw(RouteParams) ELSE NoValue]
  /\ validation = [cat \in CategorySet |-> NoValue]
  /\ validateLog = << >>
  /\ adapterIssues = << >>
  /\ bodyReads = 0
  /\ middlewareContext = {}
  /\ mwIndex = 1
  /\ mwLog = << >>
  /\ handlerCalls = 0
  /\ handlerContext = NoValue
  /\ fault = NoValue
  /\ mapperCalls = 0
  /\ vehCalls = 0
  /\ response = NoValue
  /\ rejection = NoValue
  /\ outcome = "pending"
  \* the action pipeline is not in use
  /\ acfg = NoValue
  /\ apc = "idle"
  /\ parsedInput = NoValue
  /\ inputResult = NoValue
  /\ frames = << >>
  /\ aResult = NoValue
  /\ aRejection = NoValue
  /\ aOutcome = "idle"
  /\ aMwCalls = << >>
  /\ aHandlerCalls = 0
  /\ mapperLog = << >>
  \* no builder is being configured
  /\ heap = << >>
  /\ made = << >>
  \* one invocation only, outside any hook
  /\ runs = << >>
  /\ hook = NoValue

NextDecoders ==
  \/ GetQueryParams
  \/ ParseRequestBody
  \/ CatchFault

\* the query decoder, then the body decoder, on one request; a failure of
\* the body decoder is answered by the catch block
SpecDecoders == InitDecoders /\ [][NextDecoders]_vars

\* ================================================================= builders
\* Chains of configuration calls on a route builder or an action builder.
\* Objects live in a heap and refer to each other by address, so that what
\* two builders share is visible.
SchemaNames == {"s1", "s2"}
MiddlewareNames == {"m1", "m2"}
Metadatas == {"meta1", "meta2"}
NoSchema == "undefined"

ArrayObject(elements) == [kind |-> "array", elements |-> elements]
RouteConfigObject(paramsSchema, querySchema, bodySchema) ==
  [kind |-> "routeConfig", paramsSchema |-> paramsSchema, querySchema |-> querySchema,
   bodySchema |-> bodySchema]
\* an option createSafeRoute was not given
NotGiven == "undefined"

\* the parser options a builder holds
parserOptionsOf(h, b) == h[b].parserOptions

\* new RouteHandlerBuilder({ config, middlewares, handleServerError,
\* validationErrorHandler, validationAdapter, baseContext, parserOptions })
RouteBuilderObject(config, middlewares, handleServerError, validationErrorHandler, validationAdapter, baseContext, parserOptions) ==
  [kind |-> "routeBuilder", config |-> config, middlewares |-> middlewares,
   handleServerError |-> handleServerError,
   validationErrorHandler |-> validationErrorHandler,
   validationAdapter |-> IF validationAdapter = NotGiven THEN "zodAdapter()"
                         ELSE validationAdapter,
   baseContext |-> IF baseContext = NotGiven THEN "{}" ELSE baseContext,
   parserOptions |-> parserOptions]
\* the function handler() returns closes over the builder
RouteHandlerObject(builder) == [kind |-> "routeHandler", builder |-> builder]
ActionConfigObject(inputSchema, outputSchema, metadata, middlewares) ==
  [kind |-> "actionConfig", inputSchema |-> inputSchema, outputSchema |-> outputSchema,
   metadata |-> metadata, middlewares |-> middlewares]
ActionBuilderObject(config) == [kind |-> "actionBuilder", config |-> config]
\* the function action() returns closes over the fields of the configuration
ActionFnObject(inputSchema, outputSchema, metadata, middlewares) ==
  [kind |-> "actionFn", inputSchema |-> inputSchema, outputSchema |-> outputSchema,
   metadata |-> metadata, middlewares |-> middlewares]

\* the address of the object allocated last
last(h) == Len(h)

\* the middleware is pushed onto the receiver's own array
spreadAppendMutant(h, array, middleware) ==
  [h EXCEPT ![array] = ArrayObject(Append(h[array].elements, middleware))]

\* [...array, middleware]: a new array
spreadAppend(h, array, middleware) ==
  Append(h, ArrayObject(Append(h[array].elements, middleware)))

\* the array a builder call hands on after spreadAppend
appended(h, before, array) == IF last(h) > last(before) THEN last(h) ELSE array

\* RouteHandlerBuilder.params/query/body: { ...this.config, <field>: schema }
\* and the receiver's other fields
routeWithSchema(h, b, field, schema) ==
  LET config == h[h[b].config]
      h1 == Append(h, IF field = "paramsSchema" THEN [config EXCEPT !.paramsSchema = schema]
                      ELSE IF field = "querySchema" THEN [config EXCEPT !.querySchema = schema]
                      ELSE [config EXCEPT !.bodySchema = schema])
  IN Append(h1, RouteBuilderObject(last(h1), h[b].middlewares, h[b].handleServerError,
                                   h[b].validationErrorHandler, h[b].validationAdapter,
                                   h[b].baseContext, parserOptionsOf(h, b)))

\* the new builder is given no validationErrorHandler
routeUseMutant(h, b, middleware) ==
  LET h1 == spreadAppend(h, h[b].middlewares, middleware)
  IN Append(h1, RouteBuilderObject(h[b].config, appended(h1, h, h[b].middlewares),
                                   h[b].handleServerError, NotGiven,
                                   h[b].validationAdapter, h[b].baseContext,
                                   parserOptionsOf(h, b)))

\* RouteHandlerBuilder.use
routeUse(h, b, middleware) ==
  LET h1 == spreadAppend(h, h[b].middlewares, middleware)
  IN Append(h1, RouteBuilderObject(h[b].config, appended(h1, h, h[b].middlewares),
                                   h[b].handleServerError, h[b].validationErrorHandler,
                                   h[b].validationAdapter, h[b].baseContext,
                                   parserOptionsOf(h, b)))

\* RouteHandlerBuilder.handler
routeHandler(h, b) == Append(h, RouteHandlerObject(b))

\* SafeActionBuilder.inputSchema/outputSchema/metadata: { ...this.config, <field> }
actionWithField(h, b, field, value) ==
  LET config == h[h[b].config]
      h1 == Append(h, IF field = "inputSchema" THEN [config EXCEPT !.inputSchema = value]
                      ELSE IF field = "outputSchema" THEN [config EXCEPT !.outputSchema = value]
                      ELSE [config EXCEPT !.metadata = value])
  IN Append(h1, ActionBuilderObject(last(h1)))

\* SafeActionBuilder.use
actionUse(h, b, middleware) ==
  LET config == h[h[b].config]
      h1 == spreadAppend(h, config.middlewares, middleware)
      h2 == Append(h1, [config EXCEPT !.middlewares = appended(h1, h, config.middlewares)])
  IN Append(h2, ActionBuilderObject(last(h2)))

\* SafeActionBuilder.action: the configuration is destructured
actionAction(h, b) ==
  LET config == h[h[b].config]
  IN Append(h, ActionFnObject(config.inputSchema, config.outputSchema, config.metadata,
                              config.middlewares))

\* the configuration a builder holds, or a handler or action runs with, read
\* through the references
RECURSIVE configurationOf(_, _)
configurationOf(h, a) ==
  CASE h[a].kind = "routeBuilder" ->
         [paramsSchema |-> h[h[a].config].paramsSchema,
          querySchema |-> h[h[a].config].querySchema,
          bodySchema |-> h[h[a].config].bodySchema,
          middlewares |-> h[h[a].middlewares].elements,
          handleServerError |-> h[a].handleServerError,
          validationErrorHandler |-> h[a].validationErrorHandler,
          validationAdapter |-> h[a].validationAdapter,
          baseContext |-> h[a].baseContext,
          parserOptions |-> parserOptionsOf(h, a)]
    [] h[a].kind = "routeHandler" -> configurationOf(h, h[a].builder)
    [] h[a].kind = "actionBuilder" ->
         [inputSchema |-> h[h[a].config].inputSchema,
          outputSchema |-> h[h[a].config].outputSchema,
          metadata |-> h[h[a].config].metadata,
          middlewares |-> h[h[h[a].config].middlewares].elements]
    [] h[a].kind = "actionFn" ->
         [inputSchema |-> h[a].inputSchema, outputSchema |-> h[a].outputSchema,
          metadata |-> h[a].metadata, middlewares |-> h[h[a].middlewares].elements]

Builders(h) == {a \in 1..Len(h) : h[a].kind \in {"routeBuilder", "actionBuilder"}}
Products(h) == {a \in 1..Len(h) : h[a].kind \in {"routeHandler", "actionFn"}}

\* the options createSafeRoute is called with: none, all of them, some
CreateSafeRouteParams ==
  { [handleServerError |-> NotGiven, validationErrorHandler |-> NotGiven,
     validationAdapter |-> NotGiven, baseContext |-> NotGiven, parserOptions |-> NotGiven],
    [handleServerError |-> "mapper", validationErrorHandler |-> "onInvalid",
     validationAdapter |-> "adapter", baseContext |-> "context",
     parserOptions |-> "parserOptions"],
    [handleServerError |-> NotGiven, validationErrorHandler |-> "onInvalid",
     validationAdapter |-> NotGiven, baseContext |-> "context",
     parserOptions |-> "parserOptions"] }

\* createSafeRoute(params): no schema, no middleware, the options of params
createSafeRoute(params) ==
  << RouteConfigObject(NoSchema, NoSchema, NoSchema), ArrayObject(<< >>),
     RouteBuilderObject(1, 2, params.handleServerError, params.validationErrorHandler,
                        params.validationAdapter, params.baseContext,
                        params.parserOptions) >>

\* a root action builder: no schema, no middleware
RootActionBuilder ==
  << ArrayObject(<< >>), ActionConfigObject(NoSchema, NoSchema, "meta0", 1),
     ActionBuilderObject(2) >>

\* the record kept of the objects of a heap that are not builders, handlers
\* or actions
NotMade == [from |-> 0]

InitBuilders ==
  /\ \/ \E params \in CreateSafeRouteParams :
          /\ heap = createSafeRoute(params)
          /\ made = << NotMade, NotMade,
                       [from |-> 0, change |-> <<"root">>, params |-> params,
                        configuration |-> configurationOf(heap, 3)] >>
     \/ /\ heap = RootActionBuilder
        /\ made = << NotMade, NotMade,
                     [from |-> 0, change |-> <<"root">>,
                      configuration |-> configurationOf(heap, 3)] >>
  \* no invocation is under way
  /\ cfg = NoValue
  /\ req = NoValue
  /\ pc = "idle"
  /\ vIndex = 1
  /\ inputs = [cat \in CategorySet |-> NoValue]
  /\ validation = [cat \in CategorySet |-> NoValue]
  /\ validateLog = << >>
  /\ adapterIssues = << >>
  /\ bodyReads = 0
  /\ middlewareContext = {}
  /\ mwIndex = 1
  /\ mwLog = << >>
  /\ handlerCalls = 0
  /\ handlerContext = NoValue
  /\ fault = NoValue
  /\ mapperCalls = 0
  /\ vehCalls = 0
  /\ response = NoValue
  /\ rejection = NoValue
  /\ outcome = "idle"
  /\ acfg = NoValue
  /\ apc = "idle"
  /\ parsedInput = NoValue
  /\ inputResult = NoValue
  /\ frames = << >>
  /\ aResult = NoValue
  /\ aRejection = NoValue
  /\ aOutcome = "idle"
  /\ aMwCalls = << >>
  /\ aHandlerCalls = 0
  /\ mapperLog = << >>
  \* one invocation only, outside any hook
  /\ runs = << >>
  /\ hook = NoValue

\* the calls made so far, the root's construction left out
builderCalls == Cardinality(Builders(heap) \cup Products(heap)) - 1

\* the call b.<change> gave the heap h: the record of what was made
call(h, b, change) ==
  /\ heap' = h
  /\ made' = [a \in 1..Len(h) |->
                IF a <= Len(made) THEN made[a]
                ELSE IF a = last(h)
                THEN [from |-> b, change |-> change, configuration |-> configurationOf(h, a)]
                ELSE NotMade]
  /\ UNCHANGED <<routeVars, actionVars, runVars>>

RouteBuilder_params ==
  /\ builderCalls < MaxBuilderCalls
  /\ \E b \in Builders(heap), schema \in SchemaNames :
       /\ heap[b].kind = "routeBuilder"
       /\ call(routeWithSchema(heap, b, "paramsSchema", schema), b, <<"paramsSchema", schema>>)

RouteBuilder_query ==
  /\ builderCalls < MaxBuilderCalls
  /\ \E b \in Builders(heap), schema \in SchemaNames :
       /\ heap[b].kind = "routeBuilder"
       /\ call(routeWithSchema(heap, b, "querySchema", schema), b, <<"querySchema", schema>>)

RouteBuilder_body ==
  /\ builderCalls < MaxBuilderCalls
  /\ \E b \in Builders(heap), schema \in SchemaNames :
       /\ heap[b].kind = "routeBuilder"
       /\ call(routeWithSchema(heap, b, "bodySchema", schema), b, <<"bodySchema", schema>>)

RouteBuilder_use ==
  /\ builderCalls < MaxBuilderCalls
  /\ \E b \in Builders(heap), middleware \in MiddlewareNames :
       /\ heap[b].kind = "routeBuilder"
       /\ call(routeUse(heap, b, middleware), b, <<"use", middleware>>)

RouteBuilder_handler ==
  /\ builderCalls < MaxBuilderCalls
  /\ \E b \in Builders(heap) :
       /\ heap[b].kind = "routeBuilder"
       /\ call(routeHandler(heap, b), b, <<"handler">>)

SafeActionBuilder_inputSchema ==
  /\ builderCalls < MaxBuilderCalls
  /\ \E b \in Builders(heap), schema \in SchemaNames :
       /\ heap[b].kind = "actionBuilder"
       /\ call(actionWithField(heap, b, "inputSchema", schema), b, <<"inputSchema", schema>>)

SafeActionBuilder_outputSchema ==
  /\ builderCalls < MaxBuilderCalls
  /\ \E b \in Builders(heap), schema \in SchemaNames :
       /\ heap[b].kind = "actionBuilder"
       /\ call(actionWithField(heap, b, "outputSchema", schema), b, <<"outputSchema", schema>>)

SafeActionBuilder_metadata ==
  /\ builderCalls < MaxBuilderCalls
  /\ \E b \in Builders(heap), metadata \in Metadatas :
       /\ heap[b].kind = "actionBuilder"
       /\ call(actionWithField(heap, b, "metadata", metadata), b, <<"metadata", metadata>>)

SafeActionBuilder_use ==
  /\ builderCalls < MaxBuilderCalls
  /\ \E b \in Builders(heap), middleware \in MiddlewareNames :
       /\ heap[b].kind = "actionBuilder"
       /\ call(actionUse(heap, b, middleware), b, <<"use", middleware>>)

SafeActionBuilder_action ==
  /\ builderCalls < MaxBuilderCalls
  /\ \E b \in Builders(heap) :
       /\ heap[b].kind = "actionBuilder"
       /\ call(actionAction(heap, b), b, <<"action">>)

NextBuilders ==
  \/ RouteBuilder_params
  \/ RouteBuilder_query
  \/ RouteBuilder_body
  \/ RouteBuilder_use
  \/ RouteBuilder_handler
  \/ SafeActionBuilder_inputSchema
  \/ SafeActionBuilder_outputSchema
  \/ SafeActionBuilder_metadata
  \/ SafeActionBuilder_use
  \/ SafeActionBuilder_action

\* chains of configuration calls from one root builder
SpecBuilders == InitBuilders /\ [][NextBuilders]_vars

\* ====================================================== the route contexts
\* Route invocations under every shape of the route context.

\* the mappings a params container holds
ParamMappings ==
  {RouteParams, EmptyMapping,
   JsObject([slug |-> JsArray(<<JsString("a"), JsString("b")>>)])}

\* a promise may also fulfil with undefined
AllRouteContexts ==
  {NoContext, NoParams, RejectingParams, PendingParams(JsUndefined)}
    \cup {DirectParams(m) : m \in ParamMappings}
    \cup {PendingParams(m) : m \in ParamMappings}

\* builders with, at most, a params schema and middlewares
ContextConfigs ==
  {c \in Configs : /\ ~c.querySchema /\ ~c.bodySchema
                   /\ ~c.handleServerError /\ ~c.validationErrorHandler
                   /\ c.baseContext = {}
                   /\ c.bodyOptions = DefaultBodyOptions}

\* a JSON request in each route context
ContextRequests ==
  {InContext(Request(valid, RouteQuery, "application/json", TextBody(JsonText), TRUE),
             context) :
     valid \in {AllValid, [AllValid EXCEPT !["params"] = FALSE]},
     context \in AllRouteContexts}

InitContexts ==
  /\ cfg \in ContextConfigs
  /\ req \in ContextRequests
  \* the adapter is asked only about the categories that have a schema
  /\ \A cat \in CategorySet : ~schemaOf(cfg, cat) => req.valid[cat]
  /\ pc = "resolveParams"
  /\ vIndex = 1
  /\ inputs = [cat \in CategorySet |-> NoValue]
  /\ validation = [cat \in CategorySet |-> NoValue]
  /\ validateLog = << >>
  /\ adapterIssues = << >>
  /\ bodyReads = 0
  /\ middlewareContext = {}
  /\ mwIndex = 1
  /\ mwLog = << >>
  /\ handlerCalls = 0
  /\ handlerContext = NoValue
  /\ fault = NoValue
  /\ mapperCalls = 0
  /\ vehCalls = 0
  /\ response = NoValue
  /\ rejection = NoValue
  /\ outcome = "pending"
  \* the action pipeline is not in use
  /\ acfg = NoValue
  /\ apc = "idle"
  /\ parsedInput = NoValue
  /\ inputResult = NoValue
  /\ frames = << >>
  /\ aResult = NoValue
  /\ aRejection = NoValue
  /\ aOutcome = "idle"
  /\ aMwCalls = << >>
  /\ aHandlerCalls = 0
  /\ mapperLog = << >>
  \* no builder is being configured
  /\ heap = << >>
  /\ made = << >>
  \* one invocation only, outside any hook
  /\ runs = << >>
  /\ hook = NoValue

\* one invocation of a route handler, in any route context
SpecContexts == InitContexts /\ [][NextRoute]_vars

\* ============================================== properties of the route pipeline
IsPrefix(a, b) == Len(a) <= Len(b) /\ \A i \in 1..Len(a) : a[i] = b[i]

\* a category whose schema is declared and whose input the adapter rejects
DeclaredInvalid(cat) == schemaOf(cfg, cat) /\ ~req.valid[cat]

InvalidCategories == {i \in 1..3 : DeclaredInvalid(Categories[i])}

EarliestInvalid ==
  Categories[CHOOSE i \in InvalidCategories : \A j \in InvalidCategories : i <= j]

\* the declared categories up to and including category number n, in the
\* order params, query, body
DeclaredUpTo(n) ==
  SelectSeq(SubSeq(Categories, 1, n), LAMBDA cat : schemaOf(cfg, cat))

IndexOf(cat) == CHOOSE i \in 1..3 : Categories[i] = cat

\* the response of a failed validation of the category, for some issue list
IsFailureResponseOf(r, cat) ==
  \E issues \in SeqsUpTo(Issues, MaxIssues) :
    r = IF cfg.validationErrorHandler
        THEN [by |-> "validationErrorHandler", issues |-> issues]
        ELSE [status |-> 400, headers |-> "application/json",
              body |-> [message |-> CASE cat = "params" -> "Invalid params"
                                      [] cat = "query" -> "Invalid query"
                                      [] cat = "body" -> "Invalid body",
                        issues |-> issues]]

FirstFailureWins ==
  /\ outcome = "resolved"
  /\ IsFailureResponseOf(response, EarliestInvalid)
  /\ validateLog = DeclaredUpTo(IndexOf(EarliestInvalid))
  /\ mwLog = << >>
  /\ handlerCalls = 0

C2_MiddlewareShortCircuit ==
  \A i \in 1..Len(mwLog) :
    mwLog[i].outcome = "response" =>
      /\ pc = "done"
      /\ outcome = "resolved"
      /\ response = [by |-> "middleware", index |-> mwLog[i].index]
      /\ mwLog[i].index = i
      /\ Len(mwLog) = i
      /\ handlerCalls = 0

\* the first of two middlewares returns a Response
C2_Witness ==
  /\ cfg.middlewares >= 2
  /\ Len(mwLog) = 1
  /\ mwLog[1].outcome = "response"
  /\ response = [by |-> "middleware", index |-> 1]

\* C3: an invocation never rejects: when it is over, its promise is resolved
\* to a Response.
C3_FaultFirewall ==
  pc = "done" => (outcome = "resolved" /\ response # NoValue)

\* the fault raised in the invocation, caught or not
RaisedFault == IF fault # NoValue THEN fault ELSE rejection

MapperFailed == rejection = [name |-> "Error", message |-> "handleServerError failed"]

\* C4: a fault that is not a body-parsing failure ends the invocation with
\* the custom mapper's response for that fault when a mapper is configured
\* (and returns), and with the default 500 response otherwise.
C4_FaultMapping ==
  (pc = "done" /\ RaisedFault # NoValue /\ RaisedFault.name # "BodyParsingError"
     /\ ~MapperFailed)
    => /\ outcome = "resolved"
       /\ response = IF cfg.handleServerError
                     THEN [by |-> "handleServerError", error |-> RaisedFault]
                     ELSE [status |-> 500, headers |-> "application/json",
                           body |-> [message |-> "Internal server error"]]

BodyParsingMessages ==
  {"Invalid JSON body.", "Invalid Form Data.",
   "Unsupported content type. Expected application/json, multipart/form-data, or application/x-www-form-urlencoded.",
   "Request body is required."}

\* C8: a body-parsing failure ends the invocation with a 400 response whose
\* JSON message is the failure's own message, and the custom mapper is not
\* invoked, whether or not one is configured.
C8_BodyParsingFailure ==
  (pc = "done" /\ fault # NoValue /\ fault.name = "BodyParsingError")
    => /\ outcome = "resolved"
       /\ fault.message \in BodyParsingMessages
       /\ response = [status |-> 400, headers |-> "application/json",
                      body |-> [message |-> fault.message]]
       /\ mapperCalls = 0

\* a body-parsing failure with a custom mapper configured
C8_Witness ==
  /\ pc = "done"
  /\ cfg.handleServerError
  /\ fault # NoValue
  /\ fault.name = "BodyParsingError"
  /\ response.status = 400

\* the invocation ended with a validation failure of the last category handed
\* to the adapter
EndedInValidationFailure ==
  /\ pc = "done"
  /\ fault = NoValue
  /\ validateLog # << >>
  /\ ~req.valid[validateLog[Len(validateLog)]]

FixedMessage(cat) ==
  CASE cat = "params" -> "Invalid params"
    [] cat = "query" -> "Invalid query"
    [] cat = "body" -> "Invalid body"

\* C9: without a custom validation-error handler, a failed validation ends
\* the invocation with status 400 and a JSON body whose message is the fixed
\* string of the category and whose issues is the adapter's issue list.
C9_DefaultValidationFailure ==
  (EndedInValidationFailure /\ ~cfg.validationErrorHandler)
    => /\ outcome = "resolved"
       /\ response.status = 400
       /\ response.headers = "application/json"
       /\ DOMAIN response.body = {"message", "issues"}
       /\ response.body.message = FixedMessage(validateLog[Len(validateLog)])
       /\ response.body.issues = adapterIssues

\* the body fails with a non-empty issue list, after params and query passed
C9_Witness ==
  /\ EndedInValidationFailure
  /\ ~cfg.validationErrorHandler
  /\ validateLog = <<"params", "query", "body">>
  /\ Len(adapterIssues) >= 1
  /\ response.body.message = "Invalid body"

\* C10: with a custom validation-error handler, a failed validation ends the
\* invocation with exactly the handler's return value for the adapter's issue
\* list; the handler was called once, and no later category, middleware or
\* terminal handler ran.
C10_CustomValidationErrorHandler ==
  (EndedInValidationFailure /\ cfg.validationErrorHandler)
    => /\ outcome = "resolved"
       /\ response = [by |-> "validationErrorHandler", issues |-> adapterIssues]
       /\ vehCalls = 1
       /\ validateLog = DeclaredUpTo(IndexOf(validateLog[Len(validateLog)]))
       /\ mwLog = << >>
       /\ handlerCalls = 0

\* the custom handler answers a failed query validation
C10_Witness ==
  /\ EndedInValidationFailure
  /\ cfg.validationErrorHandler
  /\ validateLog[Len(validateLog)] = "query"
  /\ cfg.bodySchema
  /\ cfg.middlewares >= 1
  /\ response = [by |-> "validationErrorHandler", issues |-> adapterIssues]

\* ============================================== action pipeline: properties
\* the action's promise has settled
ActionSettled == aOutcome \in {"resolved", "rejected"}

\* the payload fields present in the value the action resolved to
PresentFields == DOMAIN aResult.obj \cap PayloadFields

\* the messages the server-error policy can produce for this configuration
PolicyMessages ==
  {acfg.defaultServerError} \cup
    (IF acfg.handleServerError THEN {MappedMessage} ELSE {})

ServerErrorResults == {createServerErrorResult(m) : m \in PolicyMessages}

\* middleware k called next() again after a first call
CalledNextAgain(k) == frames[k].repeated # "none"

\* middleware k let the rejection of a repeated call propagate, and every
\* middleware before it awaits its own next() call outside any try/catch
PropagatesToTop(k) ==
  /\ frames[k].repeated = "await"
  /\ \A j \in 1..k : frames[j].consume \in {"top", "await"}

\* C5: the promise of an action function never rejects, whatever the
\* validation adapter, the middlewares, the handler and the handleServerError
\* mapper do (throwing included, a middleware returning a non-result value
\* included); it stays pending only while the pipeline is still at work, and
\* the value it resolves to is a result object.
C5_ActionNeverRejects ==
  /\ aOutcome # "rejected"
  /\ aRejection = NoValue
  /\ aOutcome = "pending" =>
       \/ apc = "start"
       \/ frames[1].status \in {"running", "awaiting"}
  /\ aOutcome = "resolved" => isSafeActionResult(aResult)

\* a middleware returned a non-result value, the mapper was handed the fault
\* and threw, and the action still resolved to the default message
C5_Witness ==
  /\ aOutcome = "resolved"
  /\ Len(mapperLog) >= 1
  /\ mapperLog[Len(mapperLog)] = MapperCall(MiddlewareResultError, "throws")
  /\ aResult = createServerErrorResult(acfg.defaultServerError)

\* C6: every value an action function resolves to has exactly one of the
\* payload fields data, validationErrors, serverError.
C6_Exclusivity ==
  aOutcome = "resolved" => Cardinality(PresentFields) = 1

SuccessPath ==
  /\ pc = "done"
  /\ fault = NoValue
  /\ rejection = NoValue
  /\ \A cat \in CategorySet : schemaOf(cfg, cat) => req.valid[cat]
  /\ \A i \in 1..Len(mwLog) : mwLog[i].outcome # "response"

\* C11: when every declared schema accepts its input and no middleware
\* short-circuits, the terminal handler is invoked exactly once, with params,
\* query and body equal to the adapter's output for each declared category,
\* and the invocation's response is the handler's response for that context.
C11_SuccessPath ==
  SuccessPath
    => /\ handlerCalls = 1
       /\ \A cat \in CategorySet :
            schemaOf(cfg, cat) => handlerContext[cat] = Validated(inputs[cat])
       /\ outcome = "resolved"
       /\ response = HandlerResponse(handlerContext)

\* all three schemas declared and accepted, two middlewares ran, and the
\* handler's response came back
C11_Witness ==
  /\ SuccessPath
  /\ cfg.paramsSchema /\ cfg.querySchema /\ cfg.bodySchema
  /\ Len(mwLog) = 2
  /\ handlerContext["body"] = Validated(inputs["body"])
  /\ response = HandlerResponse(handlerContext)

\* ------------------------------------------------------ undeclared categories
\* the categories handed to the validation adapter so far
AdapterCalls == {validateLog[i] : i \in 1..Len(validateLog)}

\* the invocation stopped in the validateInput call of category cat
StoppedAt(cat) ==
  /\ pc \in {"catch", "done"}
  /\ inputs["body"] # NoValue
  /\ vIndex <= Len(Categories)
  /\ Categories[vIndex] = cat

\* C12: for a category without a declared schema the validation adapter is
\* never invoked, the invocation never stops at its validation, its
\* validation data is the raw parsed value (the empty mapping for an absent
\* one), and that is what the terminal handler receives.
C12_NoImplicitValidation ==
  \A cat \in CategorySet :
    ~schemaOf(cfg, cat)
      => /\ cat \notin AdapterCalls
         /\ ~StoppedAt(cat)
         /\ vIndex > IndexOf(cat) =>
              validation[cat] = IF isNullish(inputs[cat].raw) THEN Raw(EmptyMapping)
                                ELSE inputs[cat]
         /\ handlerCalls >= 1 => handlerContext[cat] = validation[cat]

\* the handler ran with undeclared params that were absent (the empty
\* mapping), an undeclared query and a declared body
C12_Witness ==
  /\ handlerCalls = 1
  /\ ~cfg.paramsSchema /\ ~cfg.querySchema /\ cfg.bodySchema
  /\ validateLog = <<"body">>
  /\ handlerContext["params"] = Raw(EmptyMapping)
  /\ handlerContext["query"] = inputs["query"]

\* -------------------------------------------------- middleware context
\* the shallow merge of the base context and the patches of the first n
\* middlewares invoked, from left to right
RECURSIVE MergedUpTo(_)
MergedUpTo(n) ==
  IF n = 0 THEN cfg.baseContext
  ELSE LET before == MergedUpTo(n - 1)
       IN {q \in before : \A r \in mwLog[n].patch : r[1] # q[1]} \cup mwLog[n].patch

C14_MergeOrder ==
  handlerCalls >= 1
    => /\ Len(mwLog) = cfg.middlewares
       /\ \A i \in 1..Len(mwLog) : mwLog[i].outcome = "patch"
       /\ handlerContext.data = MergedUpTo(cfg.middlewares)
       /\ \A i \in 1..Len(mwLog) :
            \A q \in mwLog[i].patch :
              (\A j \in (i + 1)..Len(mwLog) : \A r \in mwLog[j].patch : r[1] # q[1])
                => q \in handlerContext.data

\* A returned {x: 1}, then B returned {x: 2, y: 1}, over the base {x: 0}: the
\* handler got {x: 2, y: 1}
C14_Witness ==
  /\ handlerCalls = 1
  /\ cfg.baseContext = {<<"x", 0>>}
  /\ Len(mwLog) = 2
  /\ mwLog[1].patch = {<<"x", 1>>}
  /\ mwLog[2].patch = {<<"x", 2>>, <<"y", 1>>}
  /\ handlerContext.data = {<<"x", 2>>, <<"y", 1>>}

\* C15: the request body is read at most once in an invocation; without a
\* body schema it is never read and the body input, and the body the terminal
\* handler is given, is the empty mapping whatever the request carries.
C15_SingleReadBody ==
  /\ bodyReads <= 1
  /\ ~cfg.bodySchema =>
       /\ bodyReads = 0
       /\ inputs["body"] \in {NoValue, Raw(EmptyMapping)}
       /\ pc \in {"validate", "middlewares"} => inputs["body"] = Raw(EmptyMapping)
       /\ handlerCalls >= 1 => handlerContext["body"] = Raw(EmptyMapping)

\* the handler ran without a body schema on a request that carries a JSON body
C15_Witness ==
  /\ ~cfg.bodySchema
  /\ req.contentType = "application/json"
  /\ req.body.text = JsonText
  /\ req.readable
  /\ handlerCalls = 1
  /\ handlerContext["body"] = Raw(EmptyMapping)
  /\ bodyReads = 0

SupportedMediaTypes ==
  {"application/json", "multipart/form-data", "application/x-www-form-urlencoded"}

\* a body schema, strictContentType and a header naming no supported type
StrictUnsupported ==
  /\ cfg.bodySchema
  /\ cfg.bodyOptions.strictContentType
  /\ \A mediaType \in SupportedMediaTypes : ~includes(req.contentType, mediaType)

UnsupportedContentTypeResponse ==
  [status |-> 400, headers |-> "application/json",
   body |-> [message |-> UnsupportedContentType]]

\* C17 as stated: with a body schema, strictContentType and a content-type
\* header naming none of the three supported types, the invocation returns
\* the 400 "Unsupported content type" response.
C17_AsStated ==
  (StrictUnsupported /\ pc = "done")
    => (outcome = "resolved" /\ response = UnsupportedContentTypeResponse)

\* C17: with a body schema, strictContentType and a content-type header naming
\* none of the three supported types, no validation, middleware or handler
\* runs and the body is not read; once the params container has resolved, the
\* invocation returns the 400 "Unsupported content type" response whatever
\* the body holds.
C17_StrictContentType ==
  StrictUnsupported =>
    /\ validateLog = << >>
    /\ mwLog = << >>
    /\ handlerCalls = 0
    /\ bodyReads = 0
    /\ (pc = "done" /\ inputs["params"] # NoValue)
         => (outcome = "resolved" /\ response = UnsupportedContentTypeResponse)

\* a request without content-type header and with an empty body was answered
\* with the 400 response
C17_Witness ==
  /\ StrictUnsupported
  /\ req.contentType = ""
  /\ req.body.text = ""
  /\ pc = "done"
  /\ inputs["params"] # NoValue
  /\ response = UnsupportedContentTypeResponse

\* ================================================== properties of the decoders
\* the body decoder has run
BodyDecoded == pc \in {"validate", "catch", "done"} /\ inputs["query"] # NoValue

\* the body decoder raised the body-parsing failure with this message
BodyRaised(message) ==
  /\ fault = BodyParsingError(message)
  /\ inputs["body"] = NoValue
  /\ pc = "done" => response = buildErrorResponse(message, Undefined, 400)

\* the body decoder yielded this value
BodyYielded(value) ==
  pc = "validate" /\ fault = NoValue /\ inputs["body"] = Raw(value)

\* the content type is JSON or none of the supported ones under the
\* non-strict fallback: the branches that read the text of the body
ReadsText ==
  \/ includes(req.contentType, "application/json")
  \/ /\ \A mediaType \in SupportedMediaTypes : ~includes(req.contentType, mediaType)
     /\ ~cfg.bodyOptions.strictContentType

\* a zero-length body in a branch that reads its text
ZeroLengthBody ==
  cfg.bodySchema /\ req.readable /\ ReadsText /\ req.body.text = ""

UnsupportedHeaders == {"", "text/plain"}

\* strictContentType is off and the header names no supported type
NonStrictFallback ==
  /\ cfg.bodySchema
  /\ req.readable
  /\ ~cfg.bodyOptions.strictContentType
  /\ req.contentType \in UnsupportedHeaders

CoercedText == coerceValue(req.body.text, TextBodyKey, cfg.bodyOptions.coerce)

OccurringKeys(entries) ==
  {key \in {pair[1] : pair \in EntryPairs} : \E i \in 1..Len(entries) : entries[i][1] = key}

\* the values the entries give to a key, in order of occurrence
RECURSIVE ValuesInOrder(_, _)
ValuesInOrder(entries, key) ==
  IF entries = << >> THEN << >>
  ELSE (IF Head(entries)[1] = key THEN << Head(entries)[2] >> ELSE << >>)
         \o ValuesInOrder(Tail(entries), key)

\* the values of a key, each coerced
CoercedInOrder(entries, key, mode) ==
  LET values == ValuesInOrder(entries, key)
  IN [i \in 1..Len(values) |-> coerceValue(values[i], key, mode)]

\* what the strategies make of the values of a key: 'always' the array,
\* 'never' one of them (undefined when there is none), 'auto' the lone value
\* or else the array
Reduced(values, options) ==
  IF options.arrayStrategy = "always" THEN JsArray(values)
  ELSE IF options.arrayStrategy = "never"
  THEN IF values = << >> THEN JsUndefined
       ELSE IF options.singleValueStrategy = "first" THEN Head(values)
       ELSE values[Len(values)]
  ELSE IF Len(values) = 1 THEN Head(values)
  ELSE JsArray(values)

\* decoded is the mapping with one entry per distinct key of the entries,
\* holding the key's coerced values reduced by the strategies
DecodesTo(decoded, entries, options) ==
  /\ decoded.type = "object"
  /\ DOMAIN decoded.obj = OccurringKeys(entries)
  /\ \A key \in OccurringKeys(entries) :
       decoded.obj[key] = Reduced(CoercedInOrder(entries, key, options.coerce), options)

FormHeaders == {"multipart/form-data; boundary=x", "application/x-www-form-urlencoded"}

\* a form is posted to a route with a body schema
FormPosted == cfg.bodySchema /\ req.contentType \in FormHeaders

PatternNumbers ==
  { <<"12", JsNumber(12)>>, <<"-3", JsNumber(0 - 3)>>,
    <<".5", JsNumber(Tenths(5))>>, <<"1.5", JsNumber(Tenths(15))>> }

\* what a raw string is to become under a coercion mode
CoercionOf(str, key, mode) ==
  IF mode = "none" THEN JsString(str)
  ELSE IF mode = "custom" THEN customCoercion(str, key)
  ELSE IF str \in {"true", "false"} THEN JsBoolean(str = "true")
  ELSE IF str = "null" THEN JsNull
  ELSE IF \E pair \in PatternNumbers : pair[1] = str
  THEN (CHOOSE pair \in PatternNumbers : pair[1] = str)[2]
  ELSE JsString(str)

\* two values of the same type that are equal
SameValue(a, b) == a.type = b.type /\ a = b

\* a key given once, kept as the lone value
LoneEntry(entries, options) == Len(entries) = 1 /\ options.arrayStrategy = "auto"

RunsOn(m) ==
  /\ pc # "resolveParams" => inputs["params"] = Raw(m)
  /\ handlerCalls >= 1 =>
       handlerContext["params"] = IF cfg.paramsSchema THEN Validated(Raw(m)) ELSE Raw(m)
  /\ (SuccessPath /\ handlerCalls = 1) => response = HandlerResponse(handlerContext)
  /\ (pc = "done" /\ fault = NoValue /\ cfg.paramsSchema /\ ~req.valid["params"]) =>
       /\ handlerCalls = 0
       /\ response = buildErrorResponse("Invalid params", Some(adapterIssues), 400)

\* C22: an invocation whose params container is a promise fulfilling with a
\* mapping goes on the same validation input, handler context and response as
\* one given the mapping itself; without route context or without params it
\* goes on the empty mapping.
C22_UniformParams ==
  /\ req.context.kind \in {"noContext", "noParams"} => RunsOn(EmptyMapping)
  /\ (req.context.kind = "value" /\ req.context.value \in ParamMappings) =>
       RunsOn(req.context.value)
  /\ (req.context.kind = "pending" /\ req.context.value \in ParamMappings) =>
       RunsOn(req.context.value)

\* the handler ran on the validated params of a pending container
C22_Witness ==
  /\ req.context = PendingParams(RouteParams)
  /\ cfg.paramsSchema
  /\ SuccessPath
  /\ handlerCalls = 1
  /\ handlerContext["params"] = Validated(Raw(RouteParams))
  /\ response = HandlerResponse(handlerContext)

\* ================================================== properties of the builders
\* a configuration after a change was asked of it
Changed(configuration, change) ==
  IF change[1] \in {"handler", "action"} THEN configuration
  ELSE IF change[1] = "use"
  THEN [configuration EXCEPT !.middlewares = Append(@, change[2])]
  ELSE [configuration EXCEPT ![change[1]] = change[2]]

\* C23: every configuration call gives a new builder whose configuration is
\* the receiver's with the one change, and every builder, handler and action
\* keeps the configuration it was made with whatever is called afterwards, on
\* it or on any other builder.
C23_BuilderImmutability ==
  \A a \in Builders(heap) \cup Products(heap) :
    /\ configurationOf(heap, a) = made[a].configuration
    /\ made[a].from # 0 =>
         /\ made[a].from < a
         /\ made[a].from \in Builders(heap)
         /\ (heap[a].kind \in {"routeBuilder", "actionBuilder"}) => heap[a] # heap[made[a].from]
         /\ made[a].configuration =
              Changed(made[made[a].from].configuration, made[a].change)

\* two branches of one builder with a middleware each, and a handler or action
\* produced from that builder afterwards that runs neither
C23_Witness ==
  \E b, c1, c2, f \in 1..Len(heap) :
    /\ c1 < c2 /\ c2 < f
    /\ made[c1].from = b /\ made[c1].change = <<"use", "m1">>
    /\ made[c2].from = b /\ made[c2].change = <<"use", "m2">>
    /\ f \in Products(heap)
    /\ made[f].from = b
    /\ configurationOf(heap, f).middlewares = << >>
    /\ configurationOf(heap, c1).middlewares = <<"m1">>
    /\ configurationOf(heap, c2).middlewares = <<"m2">>


\* ------------------------------------------------------------------- C24
\* the adapter reported failure for the raw input
InputFailed == inputResult # NoValue /\ ~inputResult.success

\* C24: when an input schema is declared and the adapter reports failure for
\* the raw input, the action resolves to {validationErrors: n} and to no
\* other field, with n the normalized issues of the adapter, no middleware
\* and no handler is invoked, and the server-error mapper is not called.
C24_InputValidationFailure ==
  InputFailed =>
    /\ acfg.inputSchema
    /\ aOutcome = "resolved"
    /\ DOMAIN aResult.obj = {"validationErrors"}
    /\ LET normalized == normalizeValidationIssues(inputResult.issues)
       IN normalized.ok => aResult.obj.validationErrors = normalized.value
    /\ aMwCalls = << >>
    /\ aHandlerCalls = 0
    /\ \A k \in 1..Len(frames) : frames[k] = IdleFrame
    /\ mapperLog = << >>
    /\ parsedInput = NoValue

\* ------------------------------------------------------------------- C25
\* middleware i returned a result and never called next()
ShortCircuited(i) ==
  /\ i \in 1..acfg.middlewares
  /\ ~frames[i].nextCalled
  /\ frames[i].settlement = "fulfilled"

\* middleware j returned the value its next() call resolved to, which is the
\* value middleware j + 1 returned
PassedOn(j) ==
  /\ frames[j].settlement = "fulfilled"
  /\ frames[j].middlewareResult = frames[j + 1].middlewareResult

\* C25: when middleware i returns a result without calling next(), no
\* middleware after i and no handler is invoked, and when every middleware
\* before i returns the value it got from next(), the action resolves to
\* exactly the result middleware i returned.
C25_ActionShortCircuit ==
  \A i \in 1..acfg.middlewares :
    ~frames[i].nextCalled =>
      /\ \A j \in (i + 1)..Len(frames) : frames[j] = IdleFrame
      /\ \A n \in 1..Len(aMwCalls) : aMwCalls[n] <= i
      /\ aHandlerCalls = 0
      /\ (ShortCircuited(i) /\ \A j \in 1..(i - 1) : PassedOn(j)) =>
           /\ aOutcome = "resolved"
           /\ aResult = frames[i].middlewareResult

\* the second middleware denied the call, the first handed the denial on,
\* and the handler never ran
C25_Witness ==
  /\ acfg.middlewares >= 2
  /\ ShortCircuited(2)
  /\ PassedOn(1)
  /\ frames[2].middlewareResult = JsObject([serverError |-> "Blocked by middleware"])
  /\ aResult = JsObject([serverError |-> "Blocked by middleware"])
  /\ aMwCalls = <<1, 2>>
  /\ aHandlerCalls = 0

\* ------------------------------------------------------------------- C26
\* a value that has not the shape of a result: no object (undefined among
\* them), or an object with none of data, validationErrors, serverError
Shapeless(value) ==
  \/ value.type # "object"
  \/ /\ value.type = "object"
     /\ \A field \in PayloadFields : field \notin DOMAIN value.obj

\* middleware k returned a value that is no result
ReturnedShapeless(k) ==
  /\ k \in 1..acfg.middlewares
  /\ frames[k].middlewareResult # NoValue
  /\ Shapeless(frames[k].middlewareResult)

\* middleware k and every middleware before it were awaited outside any
\* try/catch by their callers
AwaitedToTop(k) == \A j \in 1..k : frames[j].consume \in {"top", "await"}

\* C26 as stated: once a middleware has returned a value that is no result,
\* the settled action has resolved to {serverError: m}, m from the
\* server-error policy.
C26_AsStated ==
  \A k \in 1..Len(frames) :
    (ReturnedShapeless(k) /\ ActionSettled)
      => aOutcome = "resolved" /\ aResult \in ServerErrorResults

\* C26: a middleware that returns a value that is no result ends as a fault
\* (the promise of its activation rejects and the value is handed to nobody);
\* when the middlewares before it await their next() outside try/catch, the
\* fault reaches the action's catch block, the mapper, if configured, is
\* handed the fixed error of runMiddleware, and the action resolves to
\* {serverError: m} with m from the server-error policy.
C26_UnrecognizedMiddlewareReturn ==
  \A k \in 1..Len(frames) :
    ReturnedShapeless(k) =>
      /\ frames[k].settlement = "rejected"
      /\ k > 1 => frames[k - 1].received = NoValue
      /\ AwaitedToTop(k) =>
           /\ aOutcome = "resolved"
           /\ aResult \in ServerErrorResults
           /\ aResult # frames[k].middlewareResult
           /\ acfg.handleServerError =>
                /\ mapperLog # << >>
                /\ mapperLog[Len(mapperLog)].error = MiddlewareResultError

\* the second middleware returned an object without any of the three fields
\* after the handler had run, the first awaited it outside try/catch, and the
\* action resolved to the configured default message
C26_Witness ==
  /\ ReturnedShapeless(2)
  /\ frames[2].middlewareResult = JsObject([foo |-> Raw("x")])
  /\ AwaitedToTop(2)
  /\ aHandlerCalls = 1
  /\ ~acfg.handleServerError
  /\ aResult = createServerErrorResult("Safe error")

\* ------------------------------------------------------------------- C27
\* the activation that runs the handler
HandlerFrame == frames[acfg.middlewares + 1]

\* the adapter was asked about the handler's value and accepted it, or not
OutputAccepted ==
  HandlerFrame.outputResult # NoValue /\ HandlerFrame.outputResult.success

OutputRejected ==
  HandlerFrame.outputResult # NoValue /\ ~HandlerFrame.outputResult.success

\* C27: once the handler has returned a value, runHandler resolves to
\* {data: that value} when no output schema is declared, to {data: the
\* adapter's output} when the adapter accepts the value, and to
\* {serverError: m} when the adapter rejects it, m from the server-error
\* policy; the rejection is no fault, and the error handed to the mapper, if
\* one is configured, is the fixed 'Invalid action output.' error.
C27_OutputValidation ==
  HandlerFrame.handlerResult # NoValue =>
    /\ ~acfg.outputSchema =>
         /\ HandlerFrame.outputResult = NoValue
         /\ HandlerFrame.returned = JsObject([data |-> HandlerFrame.handlerResult])
    /\ (acfg.outputSchema /\ OutputAccepted) =>
         HandlerFrame.returned = JsObject([data |-> HandlerFrame.outputResult.data])
    /\ (acfg.outputSchema /\ OutputRejected) =>
         /\ HandlerFrame.settlement = "fulfilled"
         /\ HandlerFrame.returned \in ServerErrorResults
         /\ acfg.handleServerError =>
              /\ mapperLog # << >>
              /\ mapperLog[1].error = InvalidOutputError
              /\ mapperLog[1].threw =>
                   HandlerFrame.returned =
                     createServerErrorResult(acfg.defaultServerError)
         /\ ~acfg.handleServerError => mapperLog = << >>
    /\ (acfg.outputSchema /\ HandlerFrame.outputResult = NoValue) =>
         HandlerFrame.settlement = "rejected"

\* behind a middleware the adapter rejected the handler's value, the mapper
\* gave its message for the fixed error, and the action resolved to it
C27_Witness ==
  /\ acfg.outputSchema
  /\ acfg.middlewares >= 1
  /\ OutputRejected
  /\ mapperLog = << MapperCall(InvalidOutputError, "message") >>
  /\ HandlerFrame.returned = createServerErrorResult(MappedMessage)
  /\ aResult = createServerErrorResult(MappedMessage)

\* ------------------------------------------------------------------- C28
\* a fault reached the catch block of the action: the adapter threw on the
\* raw input, the issues it reported could not be normalized, or the promise
\* of the chain rejected
Caught ==
  /\ apc = "chain"
  /\ \/ acfg.inputSchema /\ inputResult = NoValue
     \/ InputFailed /\ "serverError" \in DOMAIN aResult.obj
     \/ frames[1].settlement = "rejected"

\* the mapper returned a string that is not empty
GaveMessage(entry) ==
  /\ ~entry.threw
  /\ entry.mapped \in {JsString(MappedMessage)}

\* the message the claim selects for call n of the mapper, or without mapper
SelectedMessage(n) ==
  IF acfg.handleServerError /\ GaveMessage(mapperLog[n])
  THEN mapperLog[n].mapped.value
  ELSE acfg.defaultServerError

\* C28: whenever a fault is converted to {serverError: m} (in the catch block
\* of the action, or for an output the adapter rejects), m is what the mapper
\* returned when a mapper is configured and returned a non-empty string, and
\* the configured default string when there is no mapper, or the mapper
\* returned the empty string or no string, or threw; a mapper is called once
\* per conversion, and the action's promise never rejects.
C28_MessageSelection ==
  /\ aOutcome # "rejected"
  /\ ~acfg.handleServerError => mapperLog = << >>
  /\ Caught =>
       /\ aOutcome = "resolved"
       /\ acfg.handleServerError => mapperLog # << >>
       /\ aResult = createServerErrorResult(SelectedMessage(Len(mapperLog)))
  /\ OutputRejected =>
       /\ acfg.handleServerError => mapperLog # << >>
       /\ HandlerFrame.returned = createServerErrorResult(SelectedMessage(1))
  /\ Len(mapperLog) <= (IF Caught THEN 1 ELSE 0) + (IF OutputRejected THEN 1 ELSE 0)

\* a middleware threw, the mapper returned the empty string, and the action
\* resolved to the default message the client was configured with
C28_Witness ==
  /\ Caught
  /\ frames[1].settlement = "rejected"
  /\ mapperLog = << MapperCall(Error("Boom"), "empty") >>
  /\ aResult = createServerErrorResult("Safe error")

\* ------------------------------------------------------------------- C29
\* the keys of a context and the value it has for one of them
ContextKeys(ctx) == {entry[1] : entry \in ctx}
ContextValue(ctx, key) == (CHOOSE entry \in ctx : entry[1] = key)[2]

\* the shallow merge of a context with the patch of next(options), the keys of
\* the patch winning; no options, no change
Patched(ctx, options) ==
  IF options = Undefined THEN ctx
  ELSE {<<key, IF key \in ContextKeys(options[1])
               THEN ContextValue(options[1], key)
               ELSE ContextValue(ctx, key)>> :
          key \in ContextKeys(ctx) \cup ContextKeys(options[1])}

\* the base context merged with the patches of the middlewares before
\* activation k, in chain order
RECURSIVE Accumulated(_)
Accumulated(k) ==
  IF k = 1 THEN acfg.baseContext
  ELSE Patched(Accumulated(k - 1), frames[k - 1].options)

\* activation k is at work and so is every middleware before it, waiting
\* for the next() it called
InChain(k) ==
  /\ frames[k].status \in {"running", "awaiting"}
  /\ \A j \in 1..(k - 1) : frames[j].status = "awaiting"

\* C29: the first middleware (the handler, when there is none) receives the
\* base context; when middleware k calls next({ctx: p}) the activation after
\* it receives the ctx of middleware k merged with p, the keys of p winning,
\* and the same ctx when next() is called without patch; so the ctx of the
\* handler is the base context merged with every patch in chain order.
C29_ContextAccumulation ==
  \A k \in 1..Len(frames) :
    InChain(k) =>
      /\ k = 1 => frames[k].ctx = acfg.baseContext
      /\ k > 1 => /\ frames[k - 1].nextCalled
                  /\ frames[k].ctx = Patched(frames[k - 1].ctx, frames[k - 1].options)
      /\ frames[k].ctx = Accumulated(k)

\* the handler runs behind two middlewares that passed the patches x = 2,
\* y = 2 and then x = 1: the later patch won for x, the base kept tenant
C29_Witness ==
  /\ acfg.middlewares = 2
  /\ InChain(3)
  /\ aHandlerCalls = 1
  /\ frames[1].options = Some({<<"x", 2>>, <<"y", 2>>})
  /\ frames[2].options = Some({<<"x", 1>>})
  /\ frames[3].ctx = {<<"tenant", 0>>, <<"x", 1>>, <<"y", 2>>}

\* ------------------------------------------------------------------- C30
\* an issue with a path that is not empty, and the key of its bucket
HasPath(issue) == issue.path # Undefined /\ Len(issue.path[1]) > 0

KeyOf(issue) ==
  join([i \in 1..Len(issue.path[1]) |-> partString(issue.path[1][i])], ".")

\* the messages of a sequence of issues, in their order
Messages(issues) == [n \in 1..Len(issues) |-> issues[n].message]

\* the two buckets the claim describes for a list of issues
FieldBucket(issues, key) ==
  Messages(SelectSeq(issues, LAMBDA issue : HasPath(issue) /\ KeyOf(issue) = key))

FormBucket(issues) ==
  Messages(SelectSeq(issues, LAMBDA issue : ~HasPath(issue)))

Bucketed(issues) ==
  [fieldErrors |->
     {<<KeyOf(issues[n]), FieldBucket(issues, KeyOf(issues[n]))>> :
        n \in {m \in 1..Len(issues) : HasPath(issues[m])}},
   formErrors |-> FormBucket(issues)]

\* C30: for every issue list the adapter reports, the normalized errors have
\* every message of an issue with a non-empty path in fieldErrors under the
\* key of its path segments joined with '.', every message of an issue
\* with an empty or undefined path in formErrors, no message lost or
\* duplicated, and the messages of each bucket in the order of the issues.
C30_Normalization ==
  InputFailed =>
    /\ "validationErrors" \in DOMAIN aResult.obj
    /\ aResult.obj.validationErrors = Bucketed(inputResult.issues)

\* ------------------------------------------------------------------- C33
\* the body decoder raised its failure in this invocation
BodyDecodingFailed == fault # NoValue /\ fault.name = "BodyParsingError"

\* C33: when body decoding fails, no category was or will be handed to the
\* validation adapter, no custom validation handler, no middleware and no
\* terminal handler is invoked, and the invocation ends with the 400
\* response that carries the message of the failure, invalid params or not.
C33_BodyDecodingFirst ==
  BodyDecodingFailed =>
    /\ validateLog = << >>
    /\ vehCalls = 0
    /\ mwLog = << >>
    /\ handlerCalls = 0
    /\ mapperCalls = 0
    /\ pc \in {"catch", "done"}
    /\ pc = "done" =>
         /\ outcome = "resolved"
         /\ response = [status |-> 400, headers |-> "application/json",
                        body |-> [message |-> fault.message]]

\* declared params that are invalid, an undecodable JSON body, and the
\* response with the message of the body
C33_Witness ==
  /\ pc = "done"
  /\ BodyDecodingFailed
  /\ cfg.paramsSchema /\ ~req.valid.params
  /\ cfg.middlewares >= 1
  /\ response = [status |-> 400, headers |-> "application/json",
                 body |-> [message |-> InvalidJsonBody]]

\* ------------------------------------------------------------------- C39
\* the header value with its letters in lower case
lowerCased(contentType) ==
  IF contentType = "Application/JSON" THEN "application/json" ELSE contentType

\* what the body decoder made of the request: the value, or the fault
Decoding(r) == IF r.ok THEN [ok |-> TRUE, value |-> r.value] ELSE [ok |-> FALSE, error |-> r.error]

\* C39: a request is decoded as the request with the same body and the
\* content-type header in lower case is: the same branch gives the same value
\* or the same body-parsing failure
C39_CaseInsensitiveDispatch ==
  BodyDecoded =>
    LET lowered == [req EXCEPT !.contentType = lowerCased(req.contentType)] IN
      /\ isJson(req.contentType) = isJson(lowered.contentType)
      /\ isForm(req.contentType) = isForm(lowered.contentType)
      /\ Decoding(parseRequestBody(cfg, req)) = Decoding(parseRequestBody(cfg, lowered))
      /\ IF parseRequestBody(cfg, lowered).ok
         THEN inputs["body"] = parseRequestBody(cfg, lowered).value
         ELSE fault = parseRequestBody(cfg, lowered).error

\* ------------------------------------------------------------------- C37
\* the builder createSafeRoute returned, from which this builder was chained
RECURSIVE rootOf(_)
rootOf(a) == IF made[a].from = 0 THEN a ELSE rootOf(made[a].from)

\* the schema the chain that led to this builder set last for this category
RECURSIVE schemaSet(_, _)
schemaSet(a, field) ==
  IF made[a].from = 0 THEN NoSchema
  ELSE IF made[a].change[1] = field THEN made[a].change[2]
  ELSE schemaSet(made[a].from, field)

\* the middlewares the chain that led to this builder added, in order
RECURSIVE middlewaresUsed(_)
middlewaresUsed(a) ==
  IF made[a].from = 0 THEN << >>
  ELSE IF made[a].change[1] = "use"
  THEN Append(middlewaresUsed(made[a].from), made[a].change[2])
  ELSE middlewaresUsed(made[a].from)

RouteBuilders == {a \in Builders(heap) : heap[a].kind = "routeBuilder"}

\* the builder has what these options gave
Carries(configuration, params) ==
  /\ configuration.handleServerError = params.handleServerError
  /\ configuration.validationErrorHandler = params.validationErrorHandler
  /\ configuration.parserOptions = params.parserOptions
  /\ configuration.validationAdapter =
       IF params.validationAdapter = NotGiven THEN "zodAdapter()"
       ELSE params.validationAdapter
  /\ configuration.baseContext =
       IF params.baseContext = NotGiven THEN "{}" ELSE params.baseContext

HasData(result) == result.type = "object" /\ "data" \in DOMAIN result.obj

\* the action resolved to a result with a data field
ResolvedWithData == aOutcome = "resolved" /\ HasData(aResult)

\* middleware j returned the result its next() call resolved to
HandedOn(j) ==
  /\ frames[j].settlement = "fulfilled"
  /\ frames[j].middlewareResult = frames[j + 1].returned

\* a middleware returned this result as a value of its own
OwnResultOf(result) ==
  \E k \in 1..acfg.middlewares :
    /\ frames[k].middlewareResult = result
    /\ result \in MiddlewareReturns

\* C35 as stated: with an output schema, the data of every result the
\* action resolves to is the adapter's output for the handler's value.
C35_AsStated ==
  (acfg.outputSchema /\ ResolvedWithData) =>
    /\ OutputAccepted
    /\ aResult.obj.data = HandlerFrame.outputResult.data

\* C35: with an output schema, every {data: d} runHandler returns carries
\* the adapter's output for the handler's value, and so does the result of
\* the action when every middleware returns what its next() call resolved
\* to; any other result with data the action resolves to is one a middleware
\* returned as its own, which no adapter is asked about.
C35_OutputSchemaEnforced ==
  acfg.outputSchema =>
    /\ (HandlerFrame.returned # NoValue /\ HasData(HandlerFrame.returned)) =>
         /\ OutputAccepted
         /\ HandlerFrame.returned.obj.data = HandlerFrame.outputResult.data
    /\ (ResolvedWithData /\ \A j \in 1..acfg.middlewares : HandedOn(j)) =>
         /\ OutputAccepted
         /\ aResult = JsObject([data |-> HandlerFrame.outputResult.data])
    /\ ResolvedWithData =>
         \/ /\ OutputAccepted
            /\ aResult = JsObject([data |-> HandlerFrame.outputResult.data])
         \/ OwnResultOf(aResult)

\* two middlewares handed on the result of the handler, whose value the
\* adapter accepted, and the action resolved to the adapter's output
C35_Witness ==
  /\ acfg.outputSchema
  /\ acfg.middlewares = 2
  /\ HandedOn(1) /\ HandedOn(2)
  /\ OutputAccepted
  /\ aOutcome = "resolved"
  /\ aResult = JsObject([data |-> Validated(Raw("output"))])

\* ------------------------------------------------------------------- C34
\* how often runMiddleware was called for middleware i
TimesInvoked(i) == Cardinality({n \in 1..Len(aMwCalls) : aMwCalls[n] = i})

HandlerAtMostOnce ==
  /\ aHandlerCalls <= 1
  /\ \A i \in 1..acfg.middlewares : TimesInvoked(i) <= 1

\* a step that invokes a middleware or the handler is the start of the
\* chain or the first next() call of an activation
StartsOnFirstCallOnly ==
  (aMwCalls' # aMwCalls \/ aHandlerCalls' # aHandlerCalls) =>
    \/ apc = "start"
    \/ \E k \in 1..acfg.middlewares :
          /\ ~frames[k].nextCalled /\ frames'[k].nextCalled
          /\ frames[k + 1].status = "idle"

\* C34: in one invocation the handler is invoked at most once and each
\* middleware at most once, whether the middlewares call next() never, once
\* or again and whether they await the promises or not; only the start of
\* the chain and the first next() call of an activation invoke anything, so
\* a refused call starts nothing.
C34_HandlerAtMostOnce == [](HandlerAtMostOnce) /\ [][StartsOnFirstCallOnly]_vars

\* the first middleware called next() without awaiting it, called it again
\* and was refused, and returned; the handler ran once beside it
C34_Witness ==
  /\ acfg.middlewares = 2
  /\ frames[2].consume = "detach"
  /\ CalledNextAgain(1)
  /\ frames[1].settlement = "fulfilled"
  /\ aOutcome = "resolved"
  /\ aMwCalls = <<1, 2>>
  /\ aHandlerCalls = 1

\* ------------------------------------------------------------------- C36
\* no middleware of invocation i has called next() more than once
CallsOnce(i) == \A k \in 1..acfg.middlewares : runs[i].calls[k] <= 1

\* every middleware of invocation i called next() once and the invocation
\* is over
RanThrough(i) ==
  /\ runs[i].status = "settled"
  /\ \A k \in 1..acfg.middlewares : runs[i].calls[k] >= 1

\* C36: the flag next() tests belongs to one activation of one invocation:
\* it is set exactly when that activation has called next(); in an
\* invocation whose middlewares call next() at most once no call is refused,
\* and it resolves to the handler's result once every middleware has called
\* next(), whatever the other invocations do, double calls included.
C36_GuardPerInvocation ==
  \A i \in Invocations :
    /\ \A k \in 1..acfg.middlewares :
         /\ runs[i].frames[k].nextCalled <=> runs[i].calls[k] >= 1
         /\ runs[i].frames[k].nextCalled <=> runs[i].frames[k + 1].status # "idle"
    /\ CallsOnce(i) =>
         /\ \A k \in 1..acfg.middlewares :
              /\ runs[i].frames[k].repeated = "none"
              /\ runs[i].frames[k].settlement # "rejected"
         /\ runs[i].status = "settled" => runs[i].result # createServerErrorResult(acfg.defaultServerError)
    /\ (CallsOnce(i) /\ RanThrough(i)) =>
         runs[i].result = JsObject([data |-> Raw("output")])

\* the first invocation ended in the double-call fault while the second was
\* under way, and the second resolved to the handler's result
C36_Witness ==
  /\ acfg.middlewares = 2
  /\ runs[1].calls[1] = 2
  /\ runs[1].result = createServerErrorResult(acfg.defaultServerError)
  /\ CallsOnce(2)
  /\ RanThrough(2)
  /\ runs[2].result = JsObject([data |-> Raw("output")])

\* ------------------------------------------------------------------- C38
\* the base context with these patches merged in, in order
RECURSIVE mergedInto(_, _)
mergedInto(base, patches) ==
  IF patches = << >> THEN spread({}, base)
  ELSE spread(mergedInto(base, SubSeq(patches, 1, Len(patches) - 1)),
              patches[Len(patches)])

\* the context of every invocation is the base context with the patches of
\* its own middlewares, and that is what its handler is given
ContextsApart ==
  \A i \in Invocations :
    runs[i].status # "idle" =>
      /\ runs[i].middlewareContext = mergedInto(cfg.baseContext, runs[i].patches)
      /\ (runs[i].response # NoValue /\ runs[i].response.by = "handler") =>
           runs[i].response.context.data = mergedInto(cfg.baseContext, runs[i].patches)

\* C38: every invocation of a route handler starts from a copy of the
\* builder's base context and merges the results of its own middlewares
\* only, whatever the invocations beside it or before it merged; no step of
\* an invocation changes the builder's base context, schemas or middlewares.
C38_InvocationIsolation == [](ContextsApart) /\ [][cfg' = cfg]_vars

\* two invocations of one handler ended with different contexts, the second
\* begun while the first had merged a patch
C38_Witness ==
  /\ cfg.baseContext = {<<"x", 0>>}
  /\ cfg.middlewares = 1
  /\ runs[1].status = "done" /\ runs[2].status = "done"
  /\ runs[1].patches = << {<<"x", 2>>, <<"y", 1>>} >>
  /\ runs[2].patches = << {} >>
  /\ runs[1].response.by = "handler"
  /\ runs[2].response = HandlerResponse(handlerArgument({<<"x", 0>>}))

\* ------------------------------------------------------------------- C31
\* the fields a result carries
FieldsOf(result) == DOMAIN result.obj \cap PayloadFields

\* C31: a mounted useAction is idle, has not executed and has no result;
\* right after executeAsync was called the status is 'executing' and
\* hasExecuted is true while the action is pending; right after the action
\* resolved the result is what it resolved to and the status is 'success'
\* for a result with data, 'validation-error' for one with validationErrors
\* and no data, 'server-error' for one with serverError only; right after
\* reset() the hook is as when mounted.
C31_StatusMachine ==
  /\ hook.last.kind \in {"mount", "reset"} =>
       /\ hook.status = "idle"
       /\ ~hook.hasExecuted
       /\ hook.result = JsUndefined
  /\ hook.last.kind = "execute" =>
       /\ hook.status = "executing"
       /\ hook.hasExecuted
       /\ runs[hook.last.execution].status = "pending"
  /\ hook.last.kind = "resolve" =>
       LET result == runs[hook.last.execution].result IN
         /\ hook.result = result
         /\ "data" \in FieldsOf(result) => hook.status = "success"
         /\ FieldsOf(result) = {"validationErrors"} => hook.status = "validation-error"
         /\ FieldsOf(result) = {"serverError"} => hook.status = "server-error"
         /\ hook.status \in {"success", "validation-error", "server-error"}

\* the action of the second call resolved to a server error after the first
\* call had succeeded and the hook had been reset
C31_Witness ==
  /\ hook.last.kind = "resolve"
  /\ hook.last.execution = 2
  /\ runs[1].result = JsObject([data |-> Raw("output")])
  /\ runs[1].resetSince
  /\ hook.result = JsObject([serverError |-> "Denied"])
  /\ hook.status = "server-error"
  /\ hook.hasExecuted

\* ------------------------------------------------------------------- C32
\* the result is a validation error or a server error
EndsInError(result) == getStatusFromResult(result) \in {"validation-error", "server-error"}

\* C32: a call of executeAsync leaves the optimistic state at
\* updateFn(state before, input); right after its action resolved, with no
\* reset since the call, the optimistic state is the one before the call
\* when the result is an error and preserveOnError is not set, and the one
\* before the resolution when the result is a success.
C32_OptimisticRollback ==
  /\ \A i \in Invocations :
       runs[i].status # "idle" => runs[i].after = updateFn(runs[i].before, runs[i].input)
  /\ hook.last.kind = "execute" =>
       hook.optimisticState = runs[hook.last.execution].after
  /\ (hook.last.kind = "resolve" /\ ~runs[hook.last.execution].resetSince) =>
       LET e == hook.last.execution IN
         /\ (EndsInError(runs[e].result) /\ ~hook.options.preserveOnError) =>
              hook.optimisticState = runs[e].before
         /\ ~EndsInError(runs[e].result) =>
              hook.optimisticState = hook.last.optimisticState

\* ------------------------------------------------------------------- C40
\* every call was made before any of them settled, and all ended in error
AllOverlappedAndFailed ==
  \A i \in Invocations :
    /\ runs[i].status = "settled"
    /\ runs[i].settledBefore = {}
    /\ ~runs[i].resetSince
    /\ EndsInError(runs[i].result)

\* C40: when every call was made before any settled, every one ended in a
\* validation error or a server error, preserveOnError is not set and the
\* hook was not reset, the optimistic state is the one before the first call.
C40_OverlappingRollback ==
  (AllOverlappedAndFailed /\ ~hook.options.preserveOnError) =>
    hook.optimisticState = runs[1].before

====
